---- MODULE Spec2Model ----
(***************************************************************************)
(* A model of movejson: the dot-notation path engine (ruleengine.py), the  *)
(* type parsers (parsers.py), the value sources, containers, environment   *)
(* and rule runner (types.py) and the built-in registry (builtins.py).     *)
(*                                                                         *)
(* Python values are tagged records [t |-> tag, v |-> payload]:            *)
(*   null, bool, int, float (whole floats, v the integer value), str (v a  *)
(*   sequence of one-character strings), list (v a sequence of values),    *)
(*   dict (v a function from key strings to values), dt (a datetime, v its *)
(*   UTC epoch seconds).  A raised exception is the value                  *)
(*   [t |-> "err", v |-> <exception class>], which every operator          *)
(*   propagates the way the exception unwinds the Python stack.            *)
(***************************************************************************)
EXTENDS Integers, Sequences, FiniteSets, TLC

(***************************************************************************)
(* Values.                                                                 *)
(***************************************************************************)
None == [t |-> "null", v |-> 0]
VBool(b) == [t |-> "bool", v |-> b]
VInt(n) == [t |-> "int", v |-> n]
VFloat(n) == [t |-> "float", v |-> n]
VStr(s) == [t |-> "str", v |-> s]
VList(s) == [t |-> "list", v |-> s]
VDict(f) == [t |-> "dict", v |-> f]
VDateTime(n) == [t |-> "dt", v |-> n]
\* A Python int beyond the range of float, such as 10 ** 400: float(value)
\* raises OverflowError, float(str(value)) is inf.
VBigInt == [t |-> "bigint", v |-> 0]
Err(kind) == [t |-> "err", v |-> kind]

\* The calls of the operators below by one another go through Call, defined
\* after them.
RECURSIVE Call(_, _)

IsErr(x) == x.t = "err"
IsNone(x) == x.t = "null"
IsList(x) == x.t = "list"
IsDict(x) == x.t = "dict"

EmptyDict == [k \in {} |-> None]

\* The first exception raised while the elements of a sequence were computed
\* from left to right, or the sequence itself when none was.
RECURSIVE FirstErr(_)
FirstErr(s) == IF s = <<>> THEN <<>>
               ELSE IF IsErr(Head(s)) THEN <<Head(s)>>
               ELSE FirstErr(Tail(s))

Collect(s) == IF FirstErr(s) = <<>> THEN VList(s) ELSE FirstErr(s)[1]

(***************************************************************************)
(* Strings: sequences of one-character strings.                            *)
(***************************************************************************)
DigitChars == <<"0", "1", "2", "3", "4", "5", "6", "7", "8", "9">>
IsDigit(c) == \E i \in 1..10 : DigitChars[i] = c
DigitVal(c) == (CHOOSE i \in 1..10 : DigitChars[i] = c) - 1
IsSpace(c) == c = " "

RECURSIVE lstrip(_)
lstrip(s) == IF s # <<>> /\ IsSpace(Head(s)) THEN lstrip(Tail(s)) ELSE s

RECURSIVE rstrip(_)
rstrip(s) == IF s # <<>> /\ IsSpace(s[Len(s)]) THEN rstrip(SubSeq(s, 1, Len(s) - 1)) ELSE s

\* str.strip()
strip(s) == lstrip(rstrip(s))

AllDigits(s) == \A i \in 1..Len(s) : IsDigit(s[i])

RECURSIVE DigitsToNat(_)
DigitsToNat(s) == IF s = <<>> THEN 0
                  ELSE 10 * DigitsToNat(SubSeq(s, 1, Len(s) - 1)) + DigitVal(s[Len(s)])

RECURSIVE NatToDigits(_)
NatToDigits(n) == IF n < 10 THEN <<DigitChars[n + 1]>>
                  ELSE NatToDigits(n \div 10) \o <<DigitChars[(n % 10) + 1]>>

\* str(n) of an int
IntToStr(n) == IF n < 0 THEN <<"-">> \o NatToDigits(-n) ELSE NatToDigits(n)

\* int(s) of a string the index regexes matched: -?\d+
StrToInt(s) == IF s # <<>> /\ Head(s) = "-" THEN -DigitsToNat(Tail(s)) ELSE DigitsToNat(s)

\* The position of the first occurrence of character c in s, 0 when absent.
IndexOf(s, c) == IF \E i \in 1..Len(s) : s[i] = c
                 THEN CHOOSE i \in 1..Len(s) : s[i] = c /\ \A j \in 1..(i - 1) : s[j] # c
                 ELSE 0

LowerOf(c) == CASE c = "A" -> "a" [] c = "B" -> "b" [] c = "C" -> "c" [] c = "D" -> "d"
                [] c = "G" -> "g" [] c = "K" -> "k" [] c = "X" -> "x" [] OTHER -> c

\* str.lower()
lower(s) == [i \in 1..Len(s) |-> LowerOf(s[i])]

\* a in b for two strings
Contains(b, a) == \E i \in 0..(Len(b) - Len(a)) : SubSeq(b, i + 1, i + Len(a)) = a

(***************************************************************************)
(* str() and float() of Python, on the values of the model.                *)
(***************************************************************************)
\* float(s): surrounding blanks, a sign, digits, a point, digits.  Only whole
\* floats are values of the model: a fraction other than zeros, an exponent,
\* inf, nan and digit-grouping underscores are outside it ("Unmodelled").
PyFloatOfStr(s0) ==
    LET s == strip(s0)
        neg == s # <<>> /\ Head(s) = "-"
        body == IF s # <<>> /\ Head(s) \in {"-", "+"} THEN Tail(s) ELSE s
        dot == IndexOf(body, ".")
        ip == IF dot = 0 THEN body ELSE SubSeq(body, 1, dot - 1)
        fp == IF dot = 0 THEN <<>> ELSE SubSeq(body, dot + 1, Len(body))
    IN  IF \E i \in 1..Len(s) : s[i] \in {"e", "E", "_", "n", "N", "i", "I"}
        THEN Err("Unmodelled")
        ELSE IF ~(AllDigits(ip) /\ AllDigits(fp) /\ Len(ip) + Len(fp) > 0)
        THEN Err("ValueError")
        ELSE IF DigitsToNat(fp) # 0
        THEN Err("Unmodelled")
        ELSE VFloat(IF neg THEN -DigitsToNat(ip) ELSE DigitsToNat(ip))

\* str(x) of a whole float: repr gives one fractional digit, "5.0".
FloatToStr(n) == IntToStr(n) \o <<".", "0">>

\* datetime.strftime with the default format "%Y-%m-%dT%H:%M:%S", for the
\* datetimes of the first minute of the epoch; others are outside the model.
DateTimeToStr(n) ==
    IF n \in 0..59
    THEN VStr(<<"1", "9", "7", "0", "-", "0", "1", "-", "0", "1", "T", "0", "0", ":", "0", "0", ":">>
             \o <<DigitChars[(n \div 10) + 1], DigitChars[(n % 10) + 1]>>)
    ELSE Err("Unmodelled")

\* The shortest text the default format matches has 14 characters
\* ("1970-1-1T0:0:0"), and every match has 4 digits first.
MinDateTimeLen == 14

\* datetime.strptime(s, "%Y-%m-%dT%H:%M:%S"): ValueError on a text that cannot
\* match; a text that may match is outside the model.
DateTimeOfStr(s) ==
    IF Len(s) < MinDateTimeLen \/ ~AllDigits(SubSeq(s, 1, 4))
    THEN Err("ValueError")
    ELSE Err("Unmodelled")

\* str(value) of a scalar.
PyStr(x) ==
    CASE x.t = "str" -> x
      [] x.t = "int" -> VStr(IntToStr(x.v))
      [] x.t = "float" -> VStr(FloatToStr(x.v))
      [] x.t = "bool" -> VStr(IF x.v THEN <<"T", "r", "u", "e">> ELSE <<"F", "a", "l", "s", "e">>)
      [] x.t = "null" -> VStr(<<"N", "o", "n", "e">>)
      [] OTHER -> Err("Unmodelled")

(***************************************************************************)
(* json.loads(json.dumps(x)): the deep copy both path operations take.     *)
(***************************************************************************)
\* Every value of the model but a datetime is JSON: the copy is an equal
\* value; a datetime anywhere inside raises TypeError.
RECURSIVE HasDateTime(_)
HasDateTime(x) ==
    CASE x.t = "dt" -> TRUE
      [] x.t = "list" -> \E i \in 1..Len(x.v) : HasDateTime(x.v[i])
      [] x.t = "dict" -> \E k \in DOMAIN x.v : HasDateTime(x.v[k])
      [] OTHER -> FALSE

json_copy(x) == IF HasDateTime(x) THEN Err("TypeError") ELSE x

(***************************************************************************)
(* parsers.py                                                              *)
(***************************************************************************)
parse_dict(value) ==
    IF IsNone(value) THEN None
    ELSE IF value.t = "dict" THEN value
    ELSE Err("ParseError")

parse_boolean(value) ==
    IF IsNone(value) THEN None
    ELSE IF value.t = "bool" THEN value
    ELSE Err("ParseError")

\* float(str(value)): str of a list, a dict, a bool or a datetime is never
\* the text of a number.
parse_numeric(value) ==
    IF IsNone(value) THEN None
    ELSE IF value.t \in {"int", "float"} THEN VFloat(value.v)
    ELSE IF value.t = "bigint" THEN Err("Unmodelled")
    ELSE IF value.t = "str"
    THEN LET r == Call("PyFloatOfStr", <<value.v>>)
         IN  IF IsErr(r) /\ r.v = "ValueError" THEN Err("ParseError") ELSE r
    ELSE Err("ParseError")

\* utcfromtimestamp of a number, strptime of str(value) otherwise: str of a
\* list or a dict starts with a bracket and str of a datetime has a blank
\* for the "T", none of them in the format.
parse_datetime(value) ==
    IF IsNone(value) THEN None
    ELSE IF value.t \in {"int", "float"} THEN VDateTime(value.v)
    ELSE IF value.t = "bigint" THEN Err("ParseError")
    ELSE IF value.t = "str"
    THEN LET r == DateTimeOfStr(value.v)
         IN  IF IsErr(r) /\ r.v = "ValueError" THEN Err("ParseError") ELSE r
    ELSE IF value.t \in {"bool", "list", "dict", "dt"} THEN Err("ParseError")
    ELSE Err("Unmodelled")

parse_string(value) ==
    IF IsNone(value) THEN None
    ELSE IF value.t = "dt" THEN DateTimeToStr(value.v)
    ELSE IF value.t = "int" THEN VStr(FloatToStr(value.v))
    ELSE IF value.t = "bigint" THEN Err("OverflowError")
    ELSE Call("PyStr", <<value>>)

parse_list_of(value, parse_one(_)) ==
    IF value.t # "list" THEN Err("ParseError")
    ELSE Collect([i \in 1..Len(value.v) |-> parse_one(value.v[i])])

parse_numeric_list(value) == parse_list_of(value, LAMBDA v : Call("parse_numeric", <<v>>))
parse_datetime_list(value) == parse_list_of(value, LAMBDA v : Call("parse_datetime", <<v>>))
parse_string_list(value) == parse_list_of(value, LAMBDA v : Call("parse_string", <<v>>))
parse_dict_list(value) == parse_list_of(value, LAMBDA v : Call("parse_dict", <<v>>))
parse_boolean_list(value) == parse_list_of(value, LAMBDA v : Call("parse_boolean", <<v>>))

(***************************************************************************)
(* ruleengine.py: DotNotation, the path language.                          *)
(***************************************************************************)
\* __dot_notation_regex_dot__.split: at every "." the character before which
\* is not a backslash.
RECURSIVE split_dots(_)
split_dots(s) ==
    LET cut == {i \in 1..Len(s) : s[i] = "." /\ (i = 1 \/ s[i - 1] # "\\")}
    IN  IF cut = {} THEN <<s>>
        ELSE LET i == CHOOSE j \in cut : \A k \in cut : j <= k
             IN  <<SubSeq(s, 1, i - 1)>> \o split_dots(SubSeq(s, i + 1, Len(s)))

\* x.replace("\\.", ".")
RECURSIVE unescape_dots(_)
unescape_dots(s) ==
    IF s = <<>> THEN <<>>
    ELSE IF Len(s) >= 2 /\ s[1] = "\\" /\ s[2] = "." THEN <<".">> \o unescape_dots(SubSeq(s, 3, Len(s)))
    ELSE <<Head(s)>> \o unescape_dots(Tail(s))

\* keys = list(map(lambda x: x.replace("\\.", "."), regex_dot.split(dot_specifier)))
specifier_keys(dot_specifier) ==
    LET parts == Call("split_dots", <<dot_specifier>>)
    IN  [i \in 1..Len(parts) |-> Call("unescape_dots", <<parts[i]>>)]

ValKey == <<"$", "v", "a", "l">>

\* The characters [-,:\d\s] of an index specifier; the set variant has no comma.
IsIndexChar(c, comma) == IsDigit(c) \/ IsSpace(c) \/ c \in {"-", ":"} \/ (comma /\ c = ",")

\* The last match of __dot_notation_regex_index_specifier__ (comma) or of
\* __dot_notation_regex_index_specifier_set__ (no comma) in a key: an
\* unescaped "[", index characters, "]", blanks, the end.  <<>> without a
\* match, else <<[start, content]>>: start is the 0-based offset of "[",
\* content is group(0).strip()[1:-1].
index_specifier_match(key, comma) ==
    LET r == rstrip(key)
        opens == {p \in 1..(Len(r) - 1) :
                    /\ r[p] = "["
                    /\ (p = 1 \/ r[p - 1] # "\\")
                    /\ \A i \in (p + 1)..(Len(r) - 1) : IsIndexChar(r[i], comma)}
    IN  IF r = <<>> \/ r[Len(r)] # "]" \/ opens = {} THEN <<>>
        ELSE LET p == CHOOSE q \in opens : \A o \in opens : q <= o
             IN  <<[start |-> p - 1, content |-> SubSeq(r, p + 1, Len(r) - 1)]>>

\* match_str.split(",")
RECURSIVE split_commas(_)
split_commas(s) ==
    LET i == IndexOf(s, ",")
    IN  IF i = 0 THEN <<s>>
        ELSE <<SubSeq(s, 1, i - 1)>> \o split_commas(SubSeq(s, i + 1, Len(s)))

\* subscription = list(map(lambda x: x.strip(), match_str.split(",")))
subscription_items(match_str) ==
    LET parts == Call("split_commas", <<match_str>>)
    IN  [i \in 1..Len(parts) |-> strip(parts[i])]

\* -{0,1}\d+
IsIntLiteral(s) ==
    LET d == IF s # <<>> /\ Head(s) = "-" THEN Tail(s) ELSE s
    IN  d # <<>> /\ AllDigits(d)

\* An optional group (-{0,1}\d+)?: <<>> when empty, <<n>> otherwise.
OptInt(s) == IF s = <<>> THEN <<>> ELSE <<StrToInt(s)>>
IsOptIntLiteral(s) == s = <<>> \/ IsIntLiteral(s)

RECURSIVE split_colons(_)
split_colons(s) ==
    LET i == IndexOf(s, ":")
    IN  IF i = 0 THEN <<s>>
        ELSE <<SubSeq(s, 1, i - 1)>> \o split_colons(SubSeq(s, i + 1, Len(s)))

\* The three index regexes tried in order on one subscription:
\*   ^(-{0,1}\d+)$                                      kind 1
\*   ^(-{0,1}\d+)?\s*:\s*(-{0,1}\d+)?$                  kind 2
\*   ^(-{0,1}\d+)?\s*:\s*(-{0,1}\d+)?\s*:\s*(-{0,1}\d+)?$   kind 3
\* kind 0 when none matches (SubscriptionError, syntax error).
parse_subscription(cur_subs) ==
    LET parts == Call("split_colons", <<cur_subs>>)
        n == Len(parts)
        first == rstrip(parts[1])
        last == lstrip(parts[n])
        mid == strip(parts[2])
    IN  IF n = 1 /\ IsIntLiteral(cur_subs)
        THEN [kind |-> 1, a |-> <<StrToInt(cur_subs)>>, b |-> <<>>, c |-> <<>>]
        ELSE IF n = 2 /\ IsOptIntLiteral(first) /\ IsOptIntLiteral(last)
        THEN [kind |-> 2, a |-> OptInt(first), b |-> OptInt(last), c |-> <<>>]
        ELSE IF n = 3 /\ IsOptIntLiteral(first) /\ IsOptIntLiteral(mid) /\ IsOptIntLiteral(last)
        THEN [kind |-> 3, a |-> OptInt(first), b |-> OptInt(mid), c |-> OptInt(last)]
        ELSE [kind |-> 0, a |-> <<>>, b |-> <<>>, c |-> <<>>]

\* The 1-based position list[i] reads or writes, 0 when i is out of range
\* (IndexError).
list_position(n, i) ==
    IF i >= 0 /\ i < n THEN i + 1
    ELSE IF i < 0 /\ -i <= n THEN n + i + 1
    ELSE 0

Clamp(i, lo, hi) == IF i < lo THEN lo ELSE IF i > hi THEN hi ELSE i

\* The 1-based positions list[a:b:c] selects, in order (slice.indices); a, b
\* and c are <<>> for an omitted bound.  c is never 0 here.
RECURSIVE slice_walk(_, _, _)
slice_walk(i, stop, step) ==
    IF (step > 0 /\ i >= stop) \/ (step < 0 /\ i <= stop) THEN <<>>
    ELSE <<i + 1>> \o slice_walk(i + step, stop, step)

slice_positions(n, a, b, c) ==
    LET step == IF c = <<>> THEN 1 ELSE c[1]
        lo == IF step > 0 THEN 0 ELSE -1
        hi == IF step > 0 THEN n ELSE n - 1
        norm(i) == Clamp(IF i < 0 THEN i + n ELSE i, lo, hi)
        start == IF a = <<>> THEN (IF step > 0 THEN 0 ELSE n - 1) ELSE norm(a[1])
        stop == IF b = <<>> THEN (IF step > 0 THEN n ELSE -1) ELSE norm(b[1])
    IN  slice_walk(start, stop, step)

SliceStepZero(c) == c # <<>> /\ c[1] = 0

\* list[a:b:c]
list_slice(s, a, b, c) ==
    LET pos == Call("slice_positions", <<Len(s), a, b, c>>)
    IN  [i \in 1..Len(pos) |-> s[pos[i]]]

\* __flatten: the leaves of nested lists, in order.
RECURSIVE flatten_seq(_)
flatten_seq(obj) ==
    IF obj.t = "list"
    THEN IF obj.v = <<>> THEN <<>>
         ELSE flatten_seq(Head(obj.v)) \o flatten_seq(VList(Tail(obj.v)))
    ELSE <<obj>>

\* __flatten without the recursion into the elements of a list
flatten_one_level(obj) ==
    IF IsErr(obj) THEN obj
    ELSE IF obj.t = "list" THEN obj
    ELSE VList(<<obj>>)

flatten(obj) == IF IsErr(obj) THEN obj ELSE VList(flatten_seq(obj))

\* dict.get(key, None); AttributeError on anything that is no dict.
dict_get(attribute, key) ==
    IF attribute.t # "dict" THEN Err("AttributeError")
    ELSE IF key \in DOMAIN attribute.v THEN attribute.v[key]
    ELSE None

RECURSIVE get_subscription_notation_recursive(_, _)
get_subscription_notation_recursive(attribute, subscription) ==
    IF subscription = <<>> THEN attribute
    ELSE IF attribute.t # "list" THEN Err("SubscriptionError")
    ELSE LET sub == Call("parse_subscription", <<subscription[1]>>)
             rest == Tail(subscription)
             pos == list_position(Len(attribute.v), sub.a[1])
         IN  CASE sub.kind = 1 ->
                    IF pos = 0 THEN Err("IndexError")
                    ELSE Collect(<<get_subscription_notation_recursive(attribute.v[pos], rest)>>)
               [] sub.kind = 2 ->
                    Collect(<<get_subscription_notation_recursive(
                                VList(Call("list_slice", <<attribute.v, sub.a, sub.b, <<>>>>)), rest)>>)
               [] sub.kind = 3 ->
                    IF SliceStepZero(sub.c) THEN Err("ValueError")
                    ELSE Collect(<<get_subscription_notation_recursive(
                                VList(Call("list_slice", <<attribute.v, sub.a, sub.b, sub.c>>)), rest)>>)
               [] OTHER -> Err("SubscriptionError")

RECURSIVE get_dot_notation_recursive(_, _)
get_dot_notation_recursive(attribute, specifier) ==
    IF IsErr(attribute) THEN attribute
    ELSE IF specifier = <<>> THEN attribute
    ELSE LET m == Call("index_specifier_match", <<specifier[1], TRUE>>)
             rest == Tail(specifier)
             sub_key == SubSeq(specifier[1], 1, m[1].start)
             subscription == Call("subscription_items", <<m[1].content>>)
             subscribed(a) == Call("flatten", <<Call("get_subscription_notation_recursive", <<a, subscription>>)>>)
         IN  IF m # <<>>
             THEN IF strip(sub_key) # <<>>
                  THEN CASE attribute.t = "dict" ->
                              get_dot_notation_recursive(subscribed(dict_get(attribute, sub_key)), rest)
                         [] attribute.t = "list" ->
                              get_dot_notation_recursive(
                                  Call("flatten", <<Collect([i \in 1..Len(attribute.v) |->
                                      LET attr == dict_get(attribute.v[i], sub_key)
                                      IN  IF IsErr(attr) THEN attr ELSE subscribed(attr)])>>),
                                  rest)
                         [] OTHER -> Err("DotNotationError")
                  ELSE get_dot_notation_recursive(subscribed(attribute), rest)
             ELSE CASE attribute.t = "dict" ->
                         get_dot_notation_recursive(dict_get(attribute, specifier[1]), rest)
                    [] attribute.t = "list" ->
                         Collect([i \in 1..Len(attribute.v) |->
                             get_dot_notation_recursive(dict_get(attribute.v[i], specifier[1]), rest)])
                    [] OTHER -> Err("DotNotationError")

get_dot_notation(obj0, dot_specifier) ==
    LET obj == Call("json_copy", <<obj0>>)
        keys0 == Call("specifier_keys", <<dot_specifier>>)
        value_parse == keys0[Len(keys0)] = ValKey
        keys == IF value_parse THEN SubSeq(keys0, 1, Len(keys0) - 1) ELSE keys0
        result == Call("flatten", <<Call("get_dot_notation_recursive", <<obj, keys>>)>>)
    IN  IF IsErr(obj) THEN obj
        ELSE IF Len(dot_specifier) = 0 THEN Err("AssertionError")
        ELSE IF Len(keys) < 1 THEN Err("AssertionError")
        ELSE IF IsErr(result) THEN result
        ELSE IF value_parse
        THEN IF Len(result.v) = 1 THEN result.v[1] ELSE Err("AssertionError")
        ELSE result

\* attribute[key] = item on a dict
dict_put(d, key, item) == VDict([k \in (DOMAIN d.v) \cup {key} |-> IF k = key THEN item ELSE d.v[k]])

\* list[a:b] = value (c omitted or 1): the covered run is replaced by the
\* items, whatever their number; an empty run (stop before start) inserts at
\* start.  list[a:b:c] = value with another step needs as many items as the
\* slice has slots (ValueError otherwise) and fills them in order.
list_assign_slice(s, a, b, c, items) ==
    LET n == Len(s)
        step == IF c = <<>> THEN 1 ELSE c[1]
        pos == Call("slice_positions", <<n, a, b, c>>)
        norm(i) == Clamp(IF i < 0 THEN i + n ELSE i, 0, n)
        start == IF a = <<>> THEN 0 ELSE norm(a[1])
        stop0 == IF b = <<>> THEN n ELSE norm(b[1])
        stop == IF stop0 < start THEN start ELSE stop0
    IN  IF step = 0 THEN Err("ValueError")
        ELSE IF step = 1
        THEN VList(SubSeq(s, 1, start) \o items \o SubSeq(s, stop + 1, n))
        ELSE IF Len(items) # Len(pos) THEN Err("ValueError")
        ELSE VList([i \in 1..n |->
                 IF \E j \in 1..Len(pos) : pos[j] = i
                 THEN items[CHOOSE j \in 1..Len(pos) : pos[j] = i]
                 ELSE s[i]])

\* The in-place writes of __set_dot_notation_recursive and
\* __set_subscription_notation, as the value the written object has
\* afterwards (or the exception raised).
RECURSIVE set_dot_notation_recursive(_, _, _)
RECURSIVE set_each(_, _, _, _)

\* for x in items[i..]: __set_dot_notation_recursive(x, specifier, value)
set_each(items, i, specifier, value) ==
    IF i > Len(items) THEN VList(items)
    ELSE LET r == Call("set_dot_notation_recursive", <<items[i], specifier, value>>)
         IN  IF IsErr(r) THEN r
             ELSE set_each([items EXCEPT ![i] = r], i + 1, specifier, value)

set_dot_notation_recursive(attribute, specifier, value) ==
    LET m == Call("index_specifier_match", <<specifier[1], FALSE>>)
        sub_key == SubSeq(specifier[1], 1, m[1].start)
        child == dict_get(attribute, sub_key)
        written == Call("set_subscription_notation", <<child, specifier, m[1].content, value>>)
        item == Call("json_copy", <<value>>)
        below == set_dot_notation_recursive(dict_get(attribute, specifier[1]), Tail(specifier), value)
    IN  IF m # <<>>
        THEN IF strip(sub_key) # <<>>
             THEN IF IsErr(child) THEN child
                  ELSE IF IsErr(written) THEN written
                  ELSE dict_put(attribute, sub_key, written)
             ELSE Call("set_subscription_notation", <<attribute, specifier, m[1].content, value>>)
        ELSE CASE attribute.t = "dict" ->
                    IF Len(specifier) = 1
                    THEN IF IsErr(item) THEN item ELSE dict_put(attribute, specifier[1], item)
                    ELSE IF IsErr(below) THEN below
                    ELSE dict_put(attribute, specifier[1], below)
               [] attribute.t = "list" -> Call("set_each", <<attribute.v, 1, specifier, value>>)
               [] OTHER -> Err("DotNotationError")

set_subscription_notation(attribute, specifier, subscription, value) ==
    IF attribute.t # "list" THEN Err("SubscriptionError")
    ELSE LET sub == Call("parse_subscription", <<strip(subscription)>>)
             n == Len(attribute.v)
             pos == list_position(n, sub.a[1])
             item == Call("json_copy", <<value>>)
             c == IF sub.kind = 2 THEN <<>> ELSE sub.c
             covered == Call("slice_positions", <<n, sub.a, sub.b, c>>)
             \* the elements of the slice, each written in turn
             inner == Call("set_each", <<Call("list_slice", <<attribute.v, sub.a, sub.b, c>>), 1, Tail(specifier), value>>)
             below == Call("set_dot_notation_recursive", <<attribute.v[pos], Tail(specifier), value>>)
         IN  CASE sub.kind = 1 ->
                    IF Len(specifier) > 1
                    THEN IF pos = 0 THEN Err("IndexError")
                         ELSE IF IsErr(below) THEN below
                         ELSE VList([attribute.v EXCEPT ![pos] = below])
                    ELSE IF IsErr(item) THEN item
                    ELSE IF pos = 0 THEN Err("IndexError")
                    ELSE VList([attribute.v EXCEPT ![pos] = item])
               [] sub.kind \in {2, 3} ->
                    IF Len(specifier) > 1
                    THEN IF SliceStepZero(c) THEN Err("ValueError")
                         ELSE IF IsErr(inner) THEN inner
                         ELSE VList([i \in 1..n |->
                                  IF \E j \in 1..Len(covered) : covered[j] = i
                                  THEN inner.v[CHOOSE j \in 1..Len(covered) : covered[j] = i]
                                  ELSE attribute.v[i]])
                    ELSE IF value.t = "list"
                    THEN Call("list_assign_slice", <<attribute.v, sub.a, sub.b, c, value.v>>)
                    ELSE IF IsErr(item) THEN item
                    ELSE IF SliceStepZero(c) THEN Err("ValueError")
                    ELSE Call("list_assign_slice", <<attribute.v, sub.a, sub.b, c,
                                           [j \in 1..Len(covered) |-> item]>>)
               [] OTHER -> Err("SubscriptionError")

\* set_dot_notation: the deep copy obj_dc is written and returned.
set_dot_notation(obj, dot_specifier, value) ==
    LET obj_dc == Call("json_copy", <<obj>>)
        keys == Call("specifier_keys", <<dot_specifier>>)
    IN  IF IsErr(obj_dc) THEN obj_dc
        ELSE Call("set_dot_notation_recursive", <<obj_dc, keys, value>>)

(***************************************************************************)
(* ruleengine.py: the closed type set, the implicit conversions, the       *)
(* parsers by type.                                                        *)
(***************************************************************************)
ALLOWED_TYPES == {"Dict", "Boolean", "String", "Numeric", "DateTime", "DictList", "BooleanList",
                  "StringList", "NumericList", "DateTimeList"}

ALLOWED_IMPLICIT_CONVERSIONS == {<<"Boolean", "String">>, <<"Numeric", "String">>,
                                 <<"DateTime", "String">>, <<"BooleanList", "StringList">>,
                                 <<"NumericList", "StringList">>, <<"DateTimeList", "StringList">>}

\* The keys of TYPE_PARSERS in the order of the dict.
TYPE_PARSER_KEYS == <<"BooleanList", "NumericList", "DateTimeList", "DictList", "StringList",
                      "Boolean", "Numeric", "DateTime", "Dict", "String">>

\* TYPE_PARSERS[type_name](value)
TYPE_PARSERS(type_name, value) ==
    CASE type_name = "BooleanList" -> Call("parse_boolean_list", <<value>>)
      [] type_name = "NumericList" -> Call("parse_numeric_list", <<value>>)
      [] type_name = "DateTimeList" -> Call("parse_datetime_list", <<value>>)
      [] type_name = "DictList" -> Call("parse_dict_list", <<value>>)
      [] type_name = "StringList" -> Call("parse_string_list", <<value>>)
      [] type_name = "Boolean" -> Call("parse_boolean", <<value>>)
      [] type_name = "Numeric" -> Call("parse_numeric", <<value>>)
      [] type_name = "DateTime" -> Call("parse_datetime", <<value>>)
      [] type_name = "Dict" -> Call("parse_dict", <<value>>)
      [] type_name = "String" -> Call("parse_string", <<value>>)
      [] OTHER -> Err("KeyError")

(***************************************************************************)
(* types.py: TypesHelper                                                   *)
(***************************************************************************)
\* The list is only ever tested for membership: a set.
extract_allowed_types(type_name) ==
    (IF type_name \in ALLOWED_TYPES THEN {type_name} ELSE {})
        \cup {c[1] : c \in {d \in ALLOWED_IMPLICIT_CONVERSIONS : d[2] = type_name}}

implicit_parse(value, type_name) == Call("TYPE_PARSERS", <<type_name, value>>)

\* datetime -> value.replace(tzinfo=timezone.utc).timestamp(), a float
value_to_json_compatible_single(value) ==
    IF value.t = "dt" THEN VFloat(value.v) ELSE value

value_to_json_compatible(value) ==
    IF value.t = "list"
    THEN VList([i \in 1..Len(value.v) |-> Call("value_to_json_compatible_single", <<value.v[i]>>)])
    ELSE Call("value_to_json_compatible_single", <<value>>)

(***************************************************************************)
(* The registry: BusinessRuleEngine.filter / comparer as builtins.py calls *)
(* them.  A parameter is [type, value_classes]; the names and descriptions *)
(* of the registry are texts no operation reads.                           *)
(***************************************************************************)
\* manipulation_types.sort(key=lambda inp: 99999 if inp[0].startswith("String") else 0):
\* a stable sort on two keys.
StartsWithString(type_name) == type_name \in {"String", "StringList"}

RECURSIVE SelectSeq2(_, _)
SelectSeq2(s, keep) ==
    IF s = <<>> THEN <<>>
    ELSE IF Head(s)[1] \in keep THEN <<Head(s)>> \o SelectSeq2(Tail(s), keep)
    ELSE SelectSeq2(Tail(s), keep)

\* As sort_manipulation_types, but the list is left in the declared order.
unsorted_manipulation_types(manipulation_types) == manipulation_types

sort_manipulation_types(manipulation_types) ==
    LET inputs == {manipulation_types[i][1] : i \in 1..Len(manipulation_types)}
        stringy == {ty \in inputs : StartsWithString(ty)}
    IN  SelectSeq2(manipulation_types, inputs \ stringy) \o SelectSeq2(manipulation_types, stringy)

StringConstantParam == [type |-> "String", value_classes |-> {"Constant"}]

FilterEntry(manipulation_types, params) ==
    [manipulation_types |-> Call("sort_manipulation_types", <<manipulation_types>>), params |-> params]

system_available_filters ==
    [key \in {"string_to_numeric", "multiple_filter_by_subvalue_include",
              "filter_by_subvalue_include", "multiple_filter_by_subvalue", "filter_by_subvalue",
              "extract_with_dot_specifier_to_string", "extract_with_dot_specifier_to_numeric",
              "numeric_to_string", "unixepoch_to_datetime"} |->
        CASE key = "string_to_numeric" -> FilterEntry(<<<<"String", "Numeric">>>>, <<>>)
          [] key = "multiple_filter_by_subvalue_include" ->
                FilterEntry(<<<<"DictList", "DictList">>>>, <<StringConstantParam, StringConstantParam>>)
          [] key = "filter_by_subvalue_include" ->
                FilterEntry(<<<<"DictList", "Dict">>>>, <<StringConstantParam, StringConstantParam>>)
          [] key = "multiple_filter_by_subvalue" ->
                FilterEntry(<<<<"DictList", "DictList">>>>, <<StringConstantParam, StringConstantParam>>)
          [] key = "filter_by_subvalue" ->
                FilterEntry(<<<<"DictList", "Dict">>>>, <<StringConstantParam, StringConstantParam>>)
          [] key = "extract_with_dot_specifier_to_string" ->
                FilterEntry(<<<<"Dict", "String">>>>, <<StringConstantParam>>)
          [] key = "extract_with_dot_specifier_to_numeric" ->
                FilterEntry(<<<<"Dict", "Numeric">>>>, <<StringConstantParam>>)
          [] key = "numeric_to_string" -> FilterEntry(<<<<"Numeric", "String">>>>, <<>>)
          [] key = "unixepoch_to_datetime" -> FilterEntry(<<<<"Numeric", "DateTime">>>>, <<>>)]

DefaultValueClasses == {"Constant", "Attribute"}

system_available_comparers ==
    [key \in {"equals", "includes", "string_includes_ignorecase"} |->
        CASE key = "equals" ->
                [collation_types |-> <<<<"Boolean", "Boolean">>, <<"String", "String">>,
                                       <<"Numeric", "Numeric">>, <<"DateTime", "DateTime">>>>,
                 params |-> <<>>, value_classes |-> DefaultValueClasses]
          [] key = "includes" ->
                [collation_types |-> <<<<"StringList", "String">>, <<"NumericList", "Numeric">>,
                                       <<"DateTimeList", "DateTime">>>>,
                 params |-> <<>>, value_classes |-> DefaultValueClasses]
          [] key = "string_includes_ignorecase" ->
                [collation_types |-> <<<<"String", "String">>>>,
                 params |-> <<>>, value_classes |-> DefaultValueClasses]]

get_filters == system_available_filters
get_comparers == system_available_comparers

(***************************************************************************)
(* builtins.py: the registered methods.                                    *)
(***************************************************************************)
IsNumber(x) == x.t \in {"int", "float", "bool"}
NumberOf(x) == IF x.t = "bool" THEN (IF x.v THEN 1 ELSE 0) ELSE x.v

\* a == b of Python: numbers by value, otherwise values of one class by
\* content.
PyEq(a, b) ==
    IF IsNumber(a) /\ IsNumber(b) THEN NumberOf(a) = NumberOf(b)
    ELSE a.t = b.t /\ a = b

equals(value, constant) ==
    IF IsNone(value) \/ IsNone(constant) THEN VBool(FALSE)
    ELSE VBool(PyEq(value, constant))

\* constant in valuelist
includes(valuelist, constant) ==
    IF IsNone(valuelist) \/ IsNone(constant) THEN VBool(FALSE)
    ELSE IF valuelist.t # "list" THEN Err("TypeError")
    ELSE VBool(\E i \in 1..Len(valuelist.v) : PyEq(valuelist.v[i], constant))

string_includes_ignorecase(value, constant) ==
    IF IsNone(value) \/ IsNone(constant) THEN VBool(FALSE)
    ELSE LET c == Call("PyStr", <<constant>>)
             v == Call("PyStr", <<value>>)
         IN  IF IsErr(c) THEN c ELSE IF IsErr(v) THEN v
             ELSE VBool(Contains(lower(v.v), lower(c.v)))

string_to_numeric(param1) ==
    IF IsNone(param1) THEN None
    ELSE IF IsNumber(param1) THEN VFloat(NumberOf(param1))
    ELSE IF param1.t = "str" THEN Call("PyFloatOfStr", <<param1.v>>)
    ELSE Err("TypeError")

\* f"{numeric}"
numeric_to_string(numeric) == IF IsNone(numeric) THEN None ELSE Call("PyStr", <<numeric>>)

\* datetime.utcfromtimestamp(numeric)
unixepoch_to_datetime(numeric) ==
    IF IsNone(numeric) THEN None
    ELSE IF numeric.t \in {"int", "float"} THEN VDateTime(numeric.v)
    ELSE Err("TypeError")

\* str(dot_specifier) as get_dot_notation takes it.
SpecifierText(dot_specifier) == Call("PyStr", <<dot_specifier>>).v

\* value.lower() <op> DotNotation.get_dot_notation(row, dot_specifier).lower()
\* in one row of a dict list: "yes", "no", or "raise" when either side has no
\* lower() or the path cannot be read.
subvalue_test(row, dot_specifier, value, exact) ==
    LET got == Call("get_dot_notation", <<row, SpecifierText(dot_specifier)>>)
    IN  IF value.t # "str" \/ IsErr(Call("PyStr", <<dot_specifier>>)) \/ IsErr(got) \/ got.t # "str" THEN "raise"
        ELSE IF exact THEN (IF lower(value.v) = lower(got.v) THEN "yes" ELSE "no")
        ELSE (IF Contains(lower(got.v), lower(value.v)) THEN "yes" ELSE "no")

\* filter_by_subvalue_include and filter_by_subvalue: the first row that
\* passes; None when none does or when anything raises on the way.
RECURSIVE first_by_subvalue(_, _, _, _)
first_by_subvalue(rows, dot_specifier, value, exact) ==
    IF rows = <<>> THEN None
    ELSE LET test == Call("subvalue_test", <<Head(rows), dot_specifier, value, exact>>)
         IN  IF test = "raise" THEN None
             ELSE IF test = "yes" THEN Head(rows)
             ELSE first_by_subvalue(Tail(rows), dot_specifier, value, exact)

\* multiple_filter_by_subvalue_include and multiple_filter_by_subvalue: the
\* rows that pass; [] when anything raises on the way.
all_by_subvalue(rows, dot_specifier, value, exact) ==
    IF \E i \in 1..Len(rows) : Call("subvalue_test", <<rows[i], dot_specifier, value, exact>>) = "raise"
    THEN VList(<<>>)
    ELSE VList(SelectSeq(rows, LAMBDA row : Call("subvalue_test", <<row, dot_specifier, value, exact>>) = "yes"))

filter_by_subvalue_include(dict_list_obj, dot_specifier, value) ==
    IF IsNone(dict_list_obj) THEN None
    ELSE IF dict_list_obj.t # "list" THEN None
    ELSE Call("first_by_subvalue", <<dict_list_obj.v, dot_specifier, value, FALSE>>)

filter_by_subvalue(dict_list_obj, dot_specifier, value) ==
    IF IsNone(dict_list_obj) THEN None
    ELSE IF dict_list_obj.t # "list" THEN None
    ELSE Call("first_by_subvalue", <<dict_list_obj.v, dot_specifier, value, TRUE>>)

multiple_filter_by_subvalue_include(dict_list_obj, dot_specifier, value) ==
    IF IsNone(dict_list_obj) THEN None
    ELSE IF dict_list_obj.t # "list" THEN VList(<<>>)
    ELSE Call("all_by_subvalue", <<dict_list_obj.v, dot_specifier, value, FALSE>>)

multiple_filter_by_subvalue(dict_list_obj, dot_specifier, value) ==
    IF IsNone(dict_list_obj) THEN None
    ELSE IF dict_list_obj.t # "list" THEN VList(<<>>)
    ELSE Call("all_by_subvalue", <<dict_list_obj.v, dot_specifier, value, TRUE>>)

extract_with_dot_specifier(dict_obj, dot_specifier, type_name) ==
    LET spec == Call("PyStr", <<dot_specifier>>)
        value == Call("get_dot_notation", <<dict_obj, spec.v>>)
    IN  IF IsNone(dict_obj) THEN None
        ELSE IF IsErr(spec) THEN spec
        ELSE IF IsErr(value) THEN value
        ELSE IF IsNone(value) THEN None
        ELSE Call("TYPE_PARSERS", <<type_name, value>>)

extract_with_dot_specifier_to_string(dict_obj, dot_specifier) ==
    Call("extract_with_dot_specifier", <<dict_obj, dot_specifier, "String">>)

extract_with_dot_specifier_to_numeric(dict_obj, dot_specifier) ==
    Call("extract_with_dot_specifier", <<dict_obj, dot_specifier, "Numeric">>)

\* filter["filter"]["method"](current_value, *args)
filter_method(key, current_value, args) ==
    CASE key = "string_to_numeric" -> Call("string_to_numeric", <<current_value>>)
      [] key = "numeric_to_string" -> Call("numeric_to_string", <<current_value>>)
      [] key = "unixepoch_to_datetime" -> Call("unixepoch_to_datetime", <<current_value>>)
      [] key = "filter_by_subvalue_include" -> Call("filter_by_subvalue_include", <<current_value, args[1], args[2]>>)
      [] key = "filter_by_subvalue" -> Call("filter_by_subvalue", <<current_value, args[1], args[2]>>)
      [] key = "multiple_filter_by_subvalue_include" ->
            Call("multiple_filter_by_subvalue_include", <<current_value, args[1], args[2]>>)
      [] key = "multiple_filter_by_subvalue" -> Call("multiple_filter_by_subvalue", <<current_value, args[1], args[2]>>)
      [] key = "extract_with_dot_specifier_to_string" ->
            Call("extract_with_dot_specifier_to_string", <<current_value, args[1]>>)
      [] key = "extract_with_dot_specifier_to_numeric" ->
            Call("extract_with_dot_specifier_to_numeric", <<current_value, args[1]>>)
      [] OTHER -> Err("KeyError")

\* comparer["method"](value1, value2, *arg_values)
comparer_method(key, value1, value2, arg_values) ==
    CASE key = "equals" -> Call("equals", <<value1, value2>>)
      [] key = "includes" -> Call("includes", <<value1, value2>>)
      [] key = "string_includes_ignorecase" -> Call("string_includes_ignorecase", <<value1, value2>>)
      [] OTHER -> Err("KeyError")

(***************************************************************************)
(* types.py: objects live in a heap, a sequence of object records; a       *)
(* reference is the index of the object.  Every call returns the heap      *)
(* after it together with what it returned or raised.                      *)
(***************************************************************************)
EmptyHeap == <<>>
Ref(id) == [t |-> "ref", v |-> id]
Res(h, r) == [h |-> h, r |-> r]
TypeOk(type_name) == [t |-> "type", v |-> type_name]
NoType == "None"

\* RuleCreationError(detail=[...]): one tag for each entry of the detail list.
RuleCreationError(detail) == [t |-> "err", v |-> "RuleCreationError", detail |-> detail]

\* Constant._try_extract_type
RECURSIVE try_extract_type_from(_, _)
try_extract_type_from(value, i) ==
    IF i > Len(TYPE_PARSER_KEYS) THEN RuleCreationError(<<"cannot be parsed to a type">>)
    ELSE LET parsed == Call("TYPE_PARSERS", <<TYPE_PARSER_KEYS[i], value>>)
         IN  IF IsErr(parsed) /\ parsed.v = "ParseError" THEN try_extract_type_from(value, i + 1)
             ELSE IF IsErr(parsed) THEN parsed
             ELSE [t |-> "typed", v |-> parsed, type |-> TYPE_PARSER_KEYS[i]]

try_extract_type(value) == Call("try_extract_type_from", <<value, 1>>)

\* Constant.set_input on the object record: the record after the call, or
\* what it raised.
Constant_set_input(obj, value, try_parse) ==
    IF Len(obj.filters) > 0 THEN RuleCreationError(<<"has filters">>)
    ELSE IF obj.type = NoType \/ try_parse
    THEN LET ex == Call("try_extract_type", <<value>>)
         IN  IF IsErr(ex) THEN ex
             ELSE [obj EXCEPT !.type = ex.type, !.base_input = ex.v, !.base_input_raw = value]
    ELSE LET parsed == Call("TYPE_PARSERS", <<obj.type, value>>)
         IN  IF IsErr(parsed) /\ parsed.v = "ParseError" THEN RuleCreationError(<<"cannot be parsed as type">>)
             ELSE IF IsErr(parsed) THEN parsed
             ELSE [obj EXCEPT !.base_input = parsed, !.base_input_raw = value]

\* Constant(value, value_type)
Constant(h, value, value_type) ==
    IF value_type # NoType /\ value_type \notin ALLOWED_TYPES
    THEN Res(h, RuleCreationError(<<"type is not allowed">>))
    ELSE LET obj == Call("Constant_set_input", <<[t |-> "obj", cls |-> "Constant", type |-> value_type,
                                        base_input |-> None, base_input_raw |-> None,
                                        filters |-> <<>>], value, FALSE>>)
         IN  IF IsErr(obj) THEN Res(h, obj) ELSE Res(Append(h, obj), Ref(Len(h) + 1))

\* Attribute.set_input on the object record.
Attribute_set_input(obj, value_dot_notation) ==
    IF Len(obj.filters) > 0 THEN RuleCreationError(<<"has filters">>)
    ELSE [obj EXCEPT !.base_input = value_dot_notation]

\* Attribute(value_dot_notation, value_type)
Attribute(h, value_dot_notation, value_type) ==
    IF value_type \notin ALLOWED_TYPES
    THEN Res(h, RuleCreationError(<<"type is not allowed">>))
    ELSE Res(Append(h, Call("Attribute_set_input", <<[t |-> "obj", cls |-> "Attribute", type |-> value_type,
                                            base_input |-> None, base_input_raw |-> None,
                                            filters |-> <<>>], value_dot_notation>>)),
             Ref(Len(h) + 1))

\* x.set_input(value) of either class.
set_input(h, id, value) ==
    LET obj == IF h[id].cls = "Constant" THEN Call("Constant_set_input", <<h[id], value, FALSE>>)
               ELSE Call("Attribute_set_input", <<h[id], value>>)
    IN  IF IsErr(obj) THEN Res(h, obj) ELSE Res([h EXCEPT ![id] = obj], Ref(id))

\* x.clear_filters()
clear_filters(h, id) == Res([h EXCEPT ![id].filters = <<>>], Ref(id))

\* As set_input_type, but the filters of the value source are not looked at.
set_input_type_with_filters(h, id, type_name) ==
    IF type_name \notin ALLOWED_TYPES THEN Res(h, RuleCreationError(<<"not a known type">>))
    ELSE IF h[id].cls = "Attribute" THEN Res([h EXCEPT ![id].type = type_name], Ref(id))
    ELSE LET parsed == Call("TYPE_PARSERS", <<type_name, h[id].base_input_raw>>)
         IN  IF IsErr(parsed) /\ parsed.v = "ParseError" THEN Res(h, RuleCreationError(<<"parse error">>))
             ELSE IF IsErr(parsed) THEN Res(h, parsed)
             ELSE Res([h EXCEPT ![id].base_input = parsed, ![id].type = type_name], Ref(id))

\* Constant.set_input_type and Attribute.set_input_type
set_input_type(h, id, type_name) ==
    IF Len(h[id].filters) > 0 THEN Res(h, RuleCreationError(<<"has filters">>))
    ELSE IF type_name \notin ALLOWED_TYPES THEN Res(h, RuleCreationError(<<"not a known type">>))
    ELSE IF h[id].cls = "Attribute" THEN Res([h EXCEPT ![id].type = type_name], Ref(id))
    ELSE LET parsed == Call("TYPE_PARSERS", <<type_name, h[id].base_input_raw>>)
         IN  IF IsErr(parsed) /\ parsed.v = "ParseError" THEN Res(h, RuleCreationError(<<"parse error">>))
             ELSE IF IsErr(parsed) THEN Res(h, parsed)
             ELSE Res([h EXCEPT ![id].base_input = parsed, ![id].type = type_name], Ref(id))

\* As first_admitting, but the last pair that admits cur_type.
RECURSIVE last_admitting(_, _, _)
last_admitting(manipulation_types, cur_type, i) ==
    IF i > Len(manipulation_types) THEN 0
    ELSE LET later == last_admitting(manipulation_types, cur_type, i + 1)
         IN  IF later # 0 THEN later
             ELSE IF cur_type \in Call("extract_allowed_types", <<manipulation_types[i][1]>>) THEN i
             ELSE 0

\* The first pair of manipulation_types whose input admits cur_type, exactly
\* or by implicit conversion; 0 when there is none.
RECURSIVE first_admitting(_, _, _)
first_admitting(manipulation_types, cur_type, i) ==
    IF i > Len(manipulation_types) THEN 0
    ELSE IF cur_type \in Call("extract_allowed_types", <<manipulation_types[i][1]>>) THEN i
    ELSE first_admitting(manipulation_types, cur_type, i + 1)

\* The first pair of manipulation_types whose input is cur_type; 0 when
\* there is none.
RECURSIVE first_exact(_, _, _)
first_exact(manipulation_types, cur_type, i) ==
    IF i > Len(manipulation_types) THEN 0
    ELSE IF manipulation_types[i][1] = cur_type THEN i
    ELSE first_exact(manipulation_types, cur_type, i + 1)

\* The registry record a filter entry of an object holds: filter["filter"].
\* The registry of builtins.py never changes, so the key finds it again; an
\* entry made against another registry holds the record itself.
filter_of(filt) == IF "filter" \in DOMAIN filt THEN filt.filter ELSE get_filters[filt.key]

\* get_type(): the loop over self._filters from the i-th on.
RECURSIVE get_type_from(_, _, _)
get_type_from(filters, i, cur_type) ==
    IF i > Len(filters) THEN TypeOk(cur_type)
    ELSE LET mt == Call("filter_of", <<filters[i]>>).manipulation_types
             k == Call("first_admitting", <<mt, cur_type, 1>>)
         IN  IF k = 0 THEN Err("BusinessRuleEngineApiError")
             ELSE get_type_from(filters, i + 1, mt[k][2])

get_type(h, id) == Call("get_type_from", <<h[id].filters, 1, h[id].type>>)

\* get_value(row): the current_type of its loop over self._filters from the
\* i-th on, whatever the values are.
RECURSIVE get_value_type_from(_, _, _)
get_value_type_from(filters, i, current_type) ==
    IF i > Len(filters) THEN TypeOk(current_type)
    ELSE LET mt == Call("filter_of", <<filters[i]>>).manipulation_types
             exact == Call("first_exact", <<mt, current_type, 1>>)
             k == IF exact # 0 THEN exact ELSE Call("first_admitting", <<mt, current_type, 1>>)
         IN  IF k = 0 THEN Err("RunnerError")
             ELSE get_value_type_from(filters, i + 1, mt[k][2])

\* x.add_filter(name) for each of names from the i-th on, with no arguments,
\* the registry that of an engine and self the record of the value source:
\* the record with the filters, or what add_filter raised.
RECURSIVE add_registered_filters(_, _, _, _)
add_registered_filters(registry, self, names, i) ==
    IF i > Len(names) THEN self
    ELSE LET cur_type == Call("get_type_from", <<self.filters, 1, self.type>>)
             cur_filter == registry[names[i]]
         IN  IF IsErr(cur_type) THEN cur_type
             ELSE IF \/ names[i] \notin DOMAIN registry
                     \/ Call("first_admitting", <<cur_filter.manipulation_types, cur_type.v, 1>>) = 0
             THEN RuleCreationError(<<"cannot be found in addable filters">>)
             ELSE IF Len(cur_filter.params) # 0
             THEN RuleCreationError(<<"extra arguments are not convenient">>)
             ELSE add_registered_filters(registry,
                      [self EXCEPT !.filters = Append(@, [key |-> names[i], filter |-> cur_filter,
                                                          args |-> <<>>])],
                      names, i + 1)

\* Attribute("a", value_type) with the filters of names added against the
\* registry, and what get_type() and the loop of get_value(row) make of its
\* type.
threaded(registry, names, value_type) ==
    LET self == Call("add_registered_filters",
                     <<registry, [t |-> "obj", cls |-> "Attribute", type |-> value_type,
                                  base_input |-> VStr(<<"a">>), base_input_raw |-> None,
                                  filters |-> <<>>], names, 1>>)
    IN  IF IsErr(self)
        THEN [threaded |-> names, value_type |-> value_type, self |-> self]
        ELSE [threaded |-> names, value_type |-> value_type, self |-> self,
              get_type |-> Call("get_type_from", <<self.filters, 1, self.type>>),
              get_value_type |-> Call("get_value_type_from", <<self.filters, 1, self.type>>)]

\* fetch_addable_filters without the test of the type: every filter of the
\* registry.
fetch_every_filter(h, id) ==
    LET cur_type == Call("get_type", <<h, id>>)
    IN  IF IsErr(cur_type) THEN cur_type
        ELSE [t |-> "keys", v |-> DOMAIN get_filters]

\* fetch_addable_filters(): the keys of the filters one of whose inputs
\* admits the current type.
fetch_addable_filters(h, id) ==
    LET cur_type == Call("get_type", <<h, id>>)
    IN  IF IsErr(cur_type) THEN cur_type
        ELSE [t |-> "keys",
              v |-> {filt \in DOMAIN get_filters :
                        Call("first_admitting", <<get_filters[filt].manipulation_types, cur_type.v, 1>>) # 0}]

IsBaseValue(obj) == obj.cls \in {"Constant", "Attribute"}
IsBaseContainer(obj) == obj.cls \in {"AndOperator", "OrOperator"}

\* The _det list of add_filter and add_comparer from the i-th argument on:
\* [t |-> "detail", v |-> the tags], or what arg.get_type() raised.
Detail(tags) == [t |-> "detail", v |-> tags]

RECURSIVE args_detail(_, _, _, _)
args_detail(h, params, args, i) ==
    IF i > Len(args) THEN Detail(<<>>)
    ELSE LET arg == h[args[i]]
             rest == args_detail(h, params, args, i + 1)
             arg_type == Call("get_type", <<h, args[i]>>)
         IN  IF ~IsBaseValue(arg)
             THEN (IF IsErr(rest) THEN rest ELSE Detail(<<"is not BaseValue type">> \o rest.v))
             ELSE IF arg.cls \notin params[i].value_classes
             THEN (IF IsErr(rest) THEN rest ELSE Detail(<<"class cannot be accepted">> \o rest.v))
             ELSE IF IsErr(arg_type) THEN arg_type
             ELSE IF IsErr(rest) THEN rest
             ELSE IF arg_type.v \notin Call("extract_allowed_types", <<params[i].type>>)
             THEN Detail(<<"type is not acceptable">> \o rest.v)
             ELSE rest

\* x.add_filter(filter_name, *args) of either class.
add_filter(h, id, filter_name, args) ==
    LET avail_filters == Call("fetch_addable_filters", <<h, id>>)
        cur_filter == get_filters[filter_name]
        det == Call("args_detail", <<h, cur_filter.params, args, 1>>)
    IN  IF IsErr(avail_filters) THEN Res(h, avail_filters)
        ELSE IF filter_name \notin avail_filters.v
        THEN Res(h, RuleCreationError(<<"cannot be found in addable filters">>))
        ELSE IF Len(cur_filter.params) # Len(args)
        THEN Res(h, RuleCreationError(<<"extra arguments are not convenient">>))
        ELSE IF IsErr(det) THEN Res(h, det)
        ELSE IF Len(det.v) > 0 THEN Res(h, RuleCreationError(det.v))
        ELSE Res([h EXCEPT ![id].filters = Append(@, [key |-> filter_name, args |-> args])], Ref(id))

\* get_value(row) of both classes, the filters applied in order: a filter
\* whose inputs hold the current type exactly takes the value as it is, any
\* other takes it parsed to the first input that admits the type.
RECURSIVE run_filters(_, _, _, _, _, _)
get_value(h, id, row) ==
    LET self == h[id]
        got == Call("get_dot_notation", <<row, SpecifierText(self.base_input)>>)
        current_value == IF self.cls = "Constant" THEN self.base_input
                         ELSE IF IsErr(Call("PyStr", <<self.base_input>>)) THEN Call("PyStr", <<self.base_input>>)
                         ELSE IF IsErr(got) THEN got
                         ELSE Call("TYPE_PARSERS", <<self.type, got>>)
    IN  IF IsErr(current_value) THEN current_value
        ELSE Call("run_filters", <<h, self.filters, 1, current_value, self.type, row>>)

run_filters(h, filters, i, current_value, current_type, row) ==
    IF i > Len(filters) THEN current_value
    ELSE LET mt == Call("filter_of", <<filters[i]>>).manipulation_types
             exact == Call("first_exact", <<mt, current_type, 1>>)
             k == IF exact # 0 THEN exact ELSE Call("first_admitting", <<mt, current_type, 1>>)
             input == IF exact # 0 THEN current_value ELSE Call("TYPE_PARSERS", <<mt[k][1], current_value>>)
             arg_values == Collect([j \in 1..Len(filters[i].args) |-> Call("get_value", <<h, filters[i].args[j], row>>)])
             output == Call("filter_method", <<filters[i].key, input, arg_values.v>>)
         IN  IF k = 0 THEN Err("RunnerError")
             ELSE IF IsErr(input) THEN input
             ELSE IF IsErr(arg_values) THEN arg_values
             ELSE IF IsErr(output) THEN output
             ELSE run_filters(h, filters, i + 1, output, mt[k][2], row)

\* Constant.to_dict and Attribute.to_dict: the dictionaries as records.
RECURSIVE value_to_dict(_, _)
value_to_dict(h, id) ==
    [key |-> h[id].cls,
     obj |-> [value |-> Call("value_to_json_compatible", <<h[id].base_input>>),
              type |-> h[id].type,
              filters |-> [i \in 1..Len(h[id].filters) |->
                              [filter_key |-> h[id].filters[i].key,
                               args |-> [j \in 1..Len(h[id].filters[i].args) |->
                                            value_to_dict(h, h[id].filters[i].args[j])]]]]]

(***************************************************************************)
(* types.py: AndOperatorContainer and OrOperatorContainer, one text but    *)
(* for all() and any().  A member of _compare_objects is a sub-container   *)
(* [m |-> "container", ref] or a comparer call [m |-> "comparer", key,     *)
(* selected_collation, comparable1, comparable2, args].                    *)
(***************************************************************************)
NoCollation == <<>>

\* AndOperatorContainer() and OrOperatorContainer()
Container(h, cls) ==
    Res(Append(h, [t |-> "obj", cls |-> cls, compare_objects |-> <<>>, not_operator |-> FALSE]),
        Ref(Len(h) + 1))

AndOperatorContainer(h) == Call("Container", <<h, "AndOperator">>)
OrOperatorContainer(h) == Call("Container", <<h, "OrOperator">>)

\* The first pair of collation_types that is exactly (cmp1_type, cmp2_type);
\* 0 when there is none.
RECURSIVE collation_exact(_, _, _, _)
collation_exact(collation_types, cmp1_type, cmp2_type, i) ==
    IF i > Len(collation_types) THEN 0
    ELSE IF collation_types[i][1] = cmp1_type /\ collation_types[i][2] = cmp2_type THEN i
    ELSE collation_exact(collation_types, cmp1_type, cmp2_type, i + 1)

\* Whether a pair of collation types admits the two types, exactly or by
\* implicit conversion.
collation_admits(collation, cmp1_type, cmp2_type) ==
    /\ cmp1_type \in Call("extract_allowed_types", <<collation[1]>>)
    /\ cmp2_type \in Call("extract_allowed_types", <<collation[2]>>)

\* The first pair of collation_types that admits the two types; 0 when there
\* is none.
RECURSIVE collation_admitting(_, _, _, _)
collation_admitting(collation_types, cmp1_type, cmp2_type, i) ==
    IF i > Len(collation_types) THEN 0
    ELSE IF collation_admits(collation_types[i], cmp1_type, cmp2_type) THEN i
    ELSE collation_admitting(collation_types, cmp1_type, cmp2_type, i + 1)

\* As select_collation, but a collation equal to the types is not preferred
\* to an earlier one that admits them.
select_collation_first_admitting(cur_comparer, cmp1_type, cmp2_type, collation_type) ==
    LET ct == cur_comparer.collation_types
        given == Call("collation_exact", <<ct, collation_type[1], collation_type[2], 1>>)
        admitting == Call("collation_admitting", <<ct, cmp1_type, cmp2_type, 1>>)
    IN  IF collation_type # NoCollation
        THEN IF Len(collation_type) # 2
             THEN RuleCreationError(<<"collation type must be two strings">>)
             ELSE IF given = 0
             THEN RuleCreationError(<<"collation type is not found">>)
             ELSE IF ~collation_admits(ct[given], cmp1_type, cmp2_type)
             THEN RuleCreationError(<<"collation type is not convenient">>)
             ELSE [t |-> "collation", v |-> ct[given]]
        ELSE IF admitting # 0 THEN [t |-> "collation", v |-> ct[admitting]]
        ELSE RuleCreationError(<<"types are not convenient">>)

\* The collation add_comparer selects, as a tuple, or what it raises.
\* collation_type is NoCollation or the tuple of strings the caller gave.
select_collation(cur_comparer, cmp1_type, cmp2_type, collation_type) ==
    LET ct == cur_comparer.collation_types
        given == Call("collation_exact", <<ct, collation_type[1], collation_type[2], 1>>)
        exact == Call("collation_exact", <<ct, cmp1_type, cmp2_type, 1>>)
        admitting == Call("collation_admitting", <<ct, cmp1_type, cmp2_type, 1>>)
    IN  IF collation_type # NoCollation
        THEN IF Len(collation_type) # 2
             THEN RuleCreationError(<<"collation type must be two strings">>)
             ELSE IF given = 0
             THEN RuleCreationError(<<"collation type is not found">>)
             ELSE IF ~collation_admits(ct[given], cmp1_type, cmp2_type)
             THEN RuleCreationError(<<"collation type is not convenient">>)
             ELSE [t |-> "collation", v |-> ct[given]]
        ELSE IF exact # 0 THEN [t |-> "collation", v |-> ct[exact]]
        ELSE IF admitting # 0 THEN [t |-> "collation", v |-> ct[admitting]]
        ELSE RuleCreationError(<<"types are not convenient">>)

\* container.add_comparer(comparer_name, comparable1, comparable2,
\* collation_type, *args)
add_comparer(h, id, comparer_name, comparable1, comparable2, collation_type, args) ==
    LET cur_comparer == get_comparers[comparer_name]
        cmp1_type == Call("get_type", <<h, comparable1>>)
        cmp2_type == Call("get_type", <<h, comparable2>>)
        selected_collation == Call("select_collation", <<cur_comparer, cmp1_type.v, cmp2_type.v, collation_type>>)
        det == Call("args_detail", <<h, cur_comparer.params, args, 1>>)
    IN  IF comparer_name \notin DOMAIN get_comparers
        THEN Res(h, RuleCreationError(<<"comparer name is not available">>))
        ELSE IF h[comparable1].cls # "Attribute"
        THEN Res(h, RuleCreationError(<<"left accepts Attribute only">>))
        ELSE IF h[comparable2].cls \notin cur_comparer.value_classes
        THEN Res(h, RuleCreationError(<<"right class is not accepted">>))
        ELSE IF IsErr(cmp1_type) THEN Res(h, cmp1_type)
        ELSE IF IsErr(cmp2_type) THEN Res(h, cmp2_type)
        ELSE IF IsErr(selected_collation) THEN Res(h, selected_collation)
        ELSE IF Len(cur_comparer.params) # Len(args)
        THEN Res(h, RuleCreationError(<<"extra arguments are not convenient">>))
        ELSE IF IsErr(det) THEN Res(h, det)
        ELSE IF Len(det.v) > 0 THEN Res(h, RuleCreationError(det.v))
        ELSE Res([h EXCEPT ![id].compare_objects =
                      Append(@, [m |-> "comparer", key |-> comparer_name,
                                 selected_collation |-> selected_collation.v,
                                 comparable1 |-> comparable1, comparable2 |-> comparable2,
                                 args |-> args])],
                 Ref(id))

\* container.add_sub_container(container)
add_sub_container(h, id, container) ==
    IF ~IsBaseContainer(h[container])
    THEN Res(h, RuleCreationError(<<"expects BaseContainer object">>))
    ELSE Res([h EXCEPT ![id].compare_objects = Append(@, [m |-> "container", ref |-> container])],
             Ref(id))

\* container.clear_objects()
clear_objects(h, id) == Res([h EXCEPT ![id].compare_objects = <<>>], Ref(id))

\* container.not_operator = value, value a bool
set_not_operator(h, id, value) == Res([h EXCEPT ![id].not_operator = value], None)

\* bool(x)
Truthy(x) ==
    CASE x.t = "bool" -> x.v
      [] x.t = "null" -> FALSE
      [] x.t \in {"int", "float"} -> x.v # 0
      [] x.t \in {"str", "list"} -> x.v # <<>>
      [] x.t = "dict" -> DOMAIN x.v # {}
      [] OTHER -> TRUE

\* The arg_values loop of _evaluate_comparable_obj.
comparer_arg_value(h, param, arg, row) ==
    LET cur_value == Call("get_value", <<h, arg, row>>)
        arg_type == Call("get_type", <<h, arg>>)
    IN  IF IsErr(cur_value) THEN cur_value
        ELSE IF IsErr(arg_type) THEN arg_type
        ELSE IF param.type # arg_type.v THEN Call("implicit_parse", <<cur_value, param.type>>)
        ELSE cur_value

\* container._evaluate_comparable_obj(compare_obj, row)
evaluate_comparable_obj(h, compare_obj, row) ==
    LET comparer == get_comparers[compare_obj.key]
        got1 == Call("get_value", <<h, compare_obj.comparable1, row>>)
        value1 == Call("implicit_parse", <<got1, compare_obj.selected_collation[1]>>)
        got2 == Call("get_value", <<h, compare_obj.comparable2, row>>)
        value2 == Call("implicit_parse", <<got2, compare_obj.selected_collation[2]>>)
        arg_values == Collect([i \in 1..Len(compare_obj.args) |->
                                  Call("comparer_arg_value", <<h, comparer.params[i], compare_obj.args[i], row>>)])
    IN  IF IsErr(got1) THEN got1
        ELSE IF IsErr(value1) THEN value1
        ELSE IF IsErr(got2) THEN got2
        ELSE IF IsErr(value2) THEN value2
        ELSE IF IsErr(arg_values) THEN arg_values
        ELSE Call("comparer_method", <<compare_obj.key, value1, value2, arg_values.v>>)

\* evaluate without lines 614-616: not_operator is not looked at.
evaluate_unnegated(h, id, row) ==
    LET self == h[id]
        results == Collect([i \in 1..Len(self.compare_objects) |->
                               IF self.compare_objects[i].m = "container"
                               THEN Call("evaluate", <<h, self.compare_objects[i].ref, row>>)
                               ELSE Call("evaluate_comparable_obj", <<h, self.compare_objects[i], row>>)])
        result == IF self.cls = "AndOperator"
                  THEN \A i \in 1..Len(results.v) : Truthy(results.v[i])
                  ELSE \E i \in 1..Len(results.v) : Truthy(results.v[i])
    IN  IF IsErr(results) THEN results ELSE VBool(result)

\* container.evaluate(row): every member is evaluated, in order, before
\* all() or any() looks at the results.
RECURSIVE evaluate(_, _, _)
evaluate(h, id, row) ==
    LET self == h[id]
        results == Collect([i \in 1..Len(self.compare_objects) |->
                               IF self.compare_objects[i].m = "container"
                               THEN evaluate(h, self.compare_objects[i].ref, row)
                               ELSE Call("evaluate_comparable_obj", <<h, self.compare_objects[i], row>>)])
        result == IF self.cls = "AndOperator"
                  THEN \A i \in 1..Len(results.v) : Truthy(results.v[i])
                  ELSE \E i \in 1..Len(results.v) : Truthy(results.v[i])
    IN  IF IsErr(results) THEN results
        ELSE IF self.not_operator THEN VBool(~result)
        ELSE VBool(result)

(***************************************************************************)
(* ruleengine.py: BusinessRuleEngine, the registry of filters and          *)
(* comparers. The keys of the dicts are strings as sequences of            *)
(* characters; a method is its name and the number of its parameters; an   *)
(* argument or an entry of a param that is None is <<>>, and <<x>>         *)
(* otherwise.                                                              *)
(***************************************************************************)
\* BusinessRuleEngine()
BusinessRuleEngine(h) ==
    Res(Append(h, [t |-> "obj", cls |-> "BusinessRuleEngine",
                   system_available_comparers |-> EmptyDict,
                   system_available_filters |-> EmptyDict]),
        Ref(Len(h) + 1))

\* __prepare_params(params): the params as they are stored, or the first
\* BusinessRuleEngineApiError.
RECURSIVE prepare_params(_)
prepare_params(params) ==
    IF params = <<>> THEN [t |-> "params", v |-> <<>>]
    ELSE LET param == Head(params)
             rest == prepare_params(Tail(params))
         IN  IF param.pretty_name = <<>> THEN Err("BusinessRuleEngineApiError")
             ELSE IF param.type = <<>> THEN Err("BusinessRuleEngineApiError")
             ELSE IF param.description = <<>> THEN Err("BusinessRuleEngineApiError")
             ELSE IF param.type[1] \notin ALLOWED_TYPES THEN Err("BusinessRuleEngineApiError")
             ELSE IF Len(param.value_classes) = 0 THEN Err("BusinessRuleEngineApiError")
             ELSE IF IsErr(rest) THEN rest
             ELSE [t |-> "params",
                   v |-> <<[type |-> param.type[1],
                            value_classes |-> {param.value_classes[i] :
                                                  i \in 1..Len(param.value_classes)}]>> \o rest.v]

\* The key a method is registered under: the key given, or the name of the
\* method, after the prefix when the method is not a builtin.
registered_key(key, prefix, method_def, builtin) ==
    IF key # <<>> /\ key[1] # <<>> THEN key[1]
    ELSE IF builtin THEN method_def.name
    ELSE prefix \o method_def.name

\* The filter decorator with the assertion of lines 86-88, that no input type
\* has two outputs, left out
filter_with_repeated_inputs(h, id, key, manipulation_types, params, builtin, method_def) ==
    LET params_current == Call("prepare_params", <<params>>)
        registered == Call("registered_key", <<key, <<"f", "_">>, method_def, builtin>>)
    IN  IF Len(manipulation_types) = 0 THEN Res(h, Err("AssertionError"))
        ELSE IF method_def.parameters # 1 + Len(params) THEN Res(h, Err("AssertionError"))
        ELSE IF \E i \in 1..Len(manipulation_types) :
                    \/ manipulation_types[i][1] \notin ALLOWED_TYPES
                    \/ manipulation_types[i][2] \notin ALLOWED_TYPES
        THEN Res(h, Err("BusinessRuleEngineApiError"))
        ELSE IF IsErr(params_current) THEN Res(h, params_current)
        ELSE Res([h EXCEPT ![id].system_available_filters =
                      [k \in DOMAIN @ \cup {registered} |->
                          IF k = registered
                          THEN [manipulation_types |-> Call("sort_manipulation_types", <<manipulation_types>>),
                                params |-> params_current.v]
                          ELSE @[k]]],
                 [t |-> "method", v |-> method_def])

\* instance.filter(pretty_name, description, key, manipulation_types, params,
\* _builtin)(method_def)
filter(h, id, key, manipulation_types, params, builtin, method_def) ==
    LET params_current == Call("prepare_params", <<params>>)
        registered == Call("registered_key", <<key, <<"f", "_">>, method_def, builtin>>)
    IN  IF Len(manipulation_types) = 0 THEN Res(h, Err("AssertionError"))
        ELSE IF \E i \in 1..Len(manipulation_types), j \in 1..Len(manipulation_types) :
                    i # j /\ manipulation_types[i][1] = manipulation_types[j][1]
        THEN Res(h, Err("AssertionError"))
        ELSE IF method_def.parameters # 1 + Len(params) THEN Res(h, Err("AssertionError"))
        ELSE IF \E i \in 1..Len(manipulation_types) :
                    \/ manipulation_types[i][1] \notin ALLOWED_TYPES
                    \/ manipulation_types[i][2] \notin ALLOWED_TYPES
        THEN Res(h, Err("BusinessRuleEngineApiError"))
        ELSE IF IsErr(params_current) THEN Res(h, params_current)
        ELSE Res([h EXCEPT ![id].system_available_filters =
                      [k \in DOMAIN @ \cup {registered} |->
                          IF k = registered
                          THEN [manipulation_types |-> Call("sort_manipulation_types", <<manipulation_types>>),
                                params |-> params_current.v]
                          ELSE @[k]]],
                 [t |-> "method", v |-> method_def])

\* instance.comparer(pretty_name, description, key, collation_types, params,
\* value_classes, _builtin)(method_def). The strings f"{x1}-{x2}" of line 150
\* are those of names of ALLOWED_TYPES, none of which has a "-": they differ
\* when the pairs do.
comparer(h, id, key, collation_types, params, value_classes, builtin, method_def) ==
    LET params_current == Call("prepare_params", <<params>>)
        registered == Call("registered_key", <<key, <<"c", "_">>, method_def, builtin>>)
    IN  IF Len(collation_types) = 0 THEN Res(h, Err("AssertionError"))
        ELSE IF method_def.parameters # 2 + Len(params) THEN Res(h, Err("AssertionError"))
        ELSE IF Len(value_classes) = 0 THEN Res(h, Err("AssertionError"))
        ELSE IF \E i \in 1..Len(collation_types) :
                    \/ collation_types[i][1] \notin ALLOWED_TYPES
                    \/ collation_types[i][2] \notin ALLOWED_TYPES
        THEN Res(h, Err("BusinessRuleEngineApiError"))
        ELSE IF Cardinality({<<collation_types[i][1], collation_types[i][2]>> :
                                 i \in 1..Len(collation_types)}) # Len(collation_types)
        THEN Res(h, Err("BusinessRuleEngineApiError"))
        ELSE IF IsErr(params_current) THEN Res(h, params_current)
        ELSE Res([h EXCEPT ![id].system_available_comparers =
                      [k \in DOMAIN @ \cup {registered} |->
                          IF k = registered
                          THEN [collation_types |-> collation_types,
                                params |-> params_current.v,
                                value_classes |-> {value_classes[i] : i \in 1..Len(value_classes)}]
                          ELSE @[k]]],
                 [t |-> "method", v |-> method_def])

(***************************************************************************)
(* types.py: JsonAttribute and Environment.                                *)
(***************************************************************************)
INPUT == "in"
OUTPUT == "out"

\* JsonAttribute(...), a frozen dataclass: a value, not an object of the heap.
JsonAttribute(dot_specifier, attribute_type, attribute_data_type, pretty_name, description, read_only, max_length) ==
    [dot_specifier |-> dot_specifier, attribute_type |-> attribute_type,
     attribute_data_type |-> attribute_data_type, pretty_name |-> pretty_name,
     description |-> description, read_only |-> read_only, max_length |-> max_length]

\* Environment()
Environment(h) ==
    Res(Append(h, [t |-> "obj", cls |-> "Environment", attributes |-> <<>>, default_mappings |-> <<>>]),
        Ref(Len(h) + 1))

\* An argument of query is <<>> for None or <<x>>.
query_admits(given, found) == given = <<>> \/ given[1] = found

\* environment.query(...)
query(h, id, dot_specifier, attribute_type, attribute_data_type, pretty_name, description, read_only) ==
    SelectSeq(h[id].attributes,
              LAMBDA attr : /\ query_admits(dot_specifier, attr.dot_specifier)
                            /\ query_admits(attribute_type, attr.attribute_type)
                            /\ query_admits(pretty_name, attr.pretty_name)
                            /\ query_admits(description, attr.description)
                            /\ query_admits(attribute_data_type, attr.attribute_data_type)
                            /\ query_admits(read_only, attr.read_only))

\* environment.add_attribute(attr)
add_attribute(h, id, attr) ==
    IF \E i \in 1..Len(h[id].attributes) : h[id].attributes[i] = attr THEN Res(h, Ref(id))
    ELSE Res([h EXCEPT ![id].attributes = Append(@, attr)], Ref(id))

\* environment.clear_attributes()
clear_attributes(h, id) ==
    Res([h EXCEPT ![id].attributes = <<>>, ![id].default_mappings = <<>>], None)

\* environment.add_default_mapping_with_index(input_index, output_index); the
\* indexes are those of Python, from 0 and from -1 backwards.
add_default_mapping_with_index(h, id, input_index, output_index) ==
    LET attrs == h[id].attributes
        i == list_position(Len(attrs), input_index)
        o == list_position(Len(attrs), output_index)
    IN  IF i = 0 THEN Res(h, Err("IndexError"))
        ELSE IF attrs[i].attribute_type # INPUT THEN Res(h, Err("ValueError"))
        ELSE IF o = 0 THEN Res(h, Err("IndexError"))
        ELSE IF attrs[o].attribute_type # OUTPUT THEN Res(h, Err("ValueError"))
        ELSE IF \E k \in 1..Len(h[id].default_mappings) :
                    h[id].default_mappings[k] = <<input_index, output_index>>
        THEN Res(h, Ref(id))
        ELSE Res([h EXCEPT ![id].default_mappings = Append(@, <<input_index, output_index>>)], Ref(id))

\* self._attributes.index(attr), from 0; -1 when it is not there.
RECURSIVE attribute_index(_, _, _)
attribute_index(attrs, attr, i) ==
    IF i > Len(attrs) THEN -1
    ELSE IF attrs[i] = attr THEN i - 1
    ELSE attribute_index(attrs, attr, i + 1)

\* environment.add_default_mapping(input_attribute, output_attribute)
add_default_mapping(h, id, input_attribute, output_attribute) ==
    LET i == Call("attribute_index", <<h[id].attributes, input_attribute, 1>>)
        o == Call("attribute_index", <<h[id].attributes, output_attribute, 1>>)
    IN  IF input_attribute.attribute_type # INPUT THEN Res(h, Err("ValueError"))
        ELSE IF output_attribute.attribute_type # OUTPUT THEN Res(h, Err("ValueError"))
        ELSE IF i = -1 \/ o = -1 THEN Res(h, Err("ValueError"))
        ELSE Call("add_default_mapping_with_index", <<h, id, i, o>>)

\* environment.get_all_default_mappings(): the pairs of attributes, or
\* IndexError when the attributes were cleared under a mapping.
get_all_default_mappings(h, id) ==
    LET attrs == h[id].attributes
        dm == h[id].default_mappings
    IN  IF \E k \in 1..Len(dm) : list_position(Len(attrs), dm[k][1]) = 0
                                    \/ list_position(Len(attrs), dm[k][2]) = 0
        THEN Err("IndexError")
        ELSE [t |-> "mappings",
              v |-> [k \in 1..Len(dm) |-> <<attrs[list_position(Len(attrs), dm[k][1])],
                                            attrs[list_position(Len(attrs), dm[k][2])]>>]]

(***************************************************************************)
(* types.py: validate_with_environment of every class.                     *)
(***************************************************************************)
RECURSIVE value_validate(_, _, _)
\* Constant.validate_with_environment and Attribute.validate_with_environment
value_validate(h, id, environment) ==
    /\ h[id].cls = "Attribute" =>
          Len(Call("query", <<h, environment, <<h[id].base_input>>, <<INPUT>>, <<>>, <<>>, <<>>, <<>>>>)) # 0
    /\ \A i \in 1..Len(h[id].filters) :
          \A j \in 1..Len(h[id].filters[i].args) :
              value_validate(h, h[id].filters[i].args[j], environment)

RECURSIVE container_validate(_, _, _)
\* AndOperatorContainer.validate_with_environment and the same of Or
container_validate(h, id, environment) ==
    \A i \in 1..Len(h[id].compare_objects) :
        LET compare_object == h[id].compare_objects[i]
        IN  IF compare_object.m = "container"
            THEN container_validate(h, compare_object.ref, environment)
            ELSE /\ Call("value_validate", <<h, compare_object.comparable1, environment>>)
                 /\ Call("value_validate", <<h, compare_object.comparable2, environment>>)
                 /\ \A j \in 1..Len(compare_object.args) :
                        Call("value_validate", <<h, compare_object.args[j], environment>>)

\* RuleExpression.validate_with_environment with the query of line 1126
\* without read_only=False
expression_validate_ignoring_read_only(h, id, environment) ==
    /\ Call("container_validate", <<h, h[id].base_container, environment>>)
    /\ \A i \in 1..Len(h[id].actions) :
          /\ Len(Call("query", <<h, environment, <<VStr(h[id].actions[i].key)>>, <<OUTPUT>>,
                       <<>>, <<>>, <<>>, <<>>>>)) # 0
          /\ Call("value_validate", <<h, h[id].actions[i].value, environment>>)

\* RuleExpression.validate_with_environment
expression_validate(h, id, environment) ==
    /\ Call("container_validate", <<h, h[id].base_container, environment>>)
    /\ \A i \in 1..Len(h[id].actions) :
          /\ Len(Call("query", <<h, environment, <<VStr(h[id].actions[i].key)>>, <<OUTPUT>>,
                       <<>>, <<>>, <<>>, <<FALSE>>>>)) # 0
          /\ Call("value_validate", <<h, h[id].actions[i].value, environment>>)

\* RuleRunner.validate_with_environment
validate_with_environment(h, id, environment) ==
    \A i \in 1..Len(h[id].expressions) : Call("expression_validate", <<h, h[id].expressions[i], environment>>)

(***************************************************************************)
(* types.py: RuleExpression and RuleRunner.                                *)
(***************************************************************************)
\* RuleExpression(base_container)
RuleExpression(h, base_container) ==
    IF ~IsBaseContainer(h[base_container])
    THEN Res(h, RuleCreationError(<<"base_container must be BaseContainer type">>))
    ELSE Res(Append(h, [t |-> "obj", cls |-> "RuleExpression", base_container |-> base_container,
                        actions |-> <<>>]),
             Ref(Len(h) + 1))

\* add_action with the action appended before the value is looked at.
add_action_before_test(h, id, action_key, value) ==
    LET key == Call("PyStr", <<action_key>>)
        appended == [h EXCEPT ![id].actions = Append(@, [key |-> key.v, value |-> value])]
    IN  IF IsErr(key) THEN Res(h, key)
        ELSE IF ~IsBaseValue(h[value])
        THEN Res(appended, RuleCreationError(<<"value must be BaseValue type">>))
        ELSE Res(appended, Ref(id))

\* expression.add_action(action_key, value); the key is kept as str(action_key).
add_action(h, id, action_key, value) ==
    IF ~IsBaseValue(h[value]) THEN Res(h, RuleCreationError(<<"value must be BaseValue type">>))
    ELSE IF IsErr(Call("PyStr", <<action_key>>)) THEN Res(h, Call("PyStr", <<action_key>>))
    ELSE Res([h EXCEPT ![id].actions = Append(@, [key |-> Call("PyStr", <<action_key>>).v, value |-> value])],
             Ref(id))

\* expression.clear_actions()
clear_actions(h, id) == Res([h EXCEPT ![id].actions = <<>>], Ref(id))

\* What run_on_dict and the steps of run_on_iterable hand on: the row and
\* the change set, a set of action keys.
Ran(row, change_set) == [t |-> "ran", row |-> row, change_set |-> change_set]

\* The loop over self._actions taken from the last action to the first.
RECURSIVE run_actions_reversed(_, _, _, _, _)
run_actions_reversed(h, actions, i, row, change_set) ==
    IF i > Len(actions) THEN Ran(row, change_set)
    ELSE LET action == actions[Len(actions) + 1 - i]
             value == Call("get_value", <<h, action.value, row>>)
             written == Call("set_dot_notation", <<row, action.key, value>>)
         IN  IF IsErr(value) THEN value
             ELSE IF IsErr(written) THEN written
             ELSE run_actions_reversed(h, actions, i + 1, written, change_set \cup {action.key})

\* The loop over self._actions with every value taken from the row the
\* expression was given, not from the row the actions before it wrote.
RECURSIVE run_actions_from(_, _, _, _, _, _)
run_actions_from(h, actions, i, given, row, change_set) ==
    IF i > Len(actions) THEN Ran(row, change_set)
    ELSE LET value == Call("get_value", <<h, actions[i].value, given>>)
             written == Call("set_dot_notation", <<row, actions[i].key, value>>)
         IN  IF IsErr(value) THEN value
             ELSE IF IsErr(written) THEN written
             ELSE run_actions_from(h, actions, i + 1, given, written,
                                   change_set \cup {actions[i].key})

run_actions_on_given_row(h, actions, i, row, change_set) ==
    run_actions_from(h, actions, i, row, row, change_set)

\* The loop over self._actions of run_on_dict from the i-th action on.
RECURSIVE run_actions(_, _, _, _, _)
run_actions(h, actions, i, row, change_set) ==
    IF i > Len(actions) THEN Ran(row, change_set)
    ELSE LET value == Call("get_value", <<h, actions[i].value, row>>)
             written == Call("set_dot_notation", <<row, actions[i].key, value>>)
         IN  IF IsErr(value) THEN value
             ELSE IF IsErr(written) THEN written
             ELSE run_actions(h, actions, i + 1, written, change_set \cup {actions[i].key})

\* run_on_dict without the test of line 1142: the actions run on every row.
run_on_dict_unconditional(h, id, row) ==
    LET fires == Call("evaluate", <<h, h[id].base_container, row>>)
    IN  IF IsErr(fires) THEN fires
        ELSE Call("run_actions", <<h, h[id].actions, 1, row, {}>>)

\* expression.run_on_dict(row)
run_on_dict(h, id, row) ==
    LET fires == Call("evaluate", <<h, h[id].base_container, row>>)
    IN  IF IsErr(fires) THEN fires
        ELSE IF Truthy(fires) THEN Call("run_actions", <<h, h[id].actions, 1, row, {}>>)
        ELSE Ran(row, {})

\* RuleRunner()
RuleRunner(h) ==
    Res(Append(h, [t |-> "obj", cls |-> "RuleRunner", expressions |-> <<>>]), Ref(Len(h) + 1))

\* runner.add_expression(expression)
add_expression(h, id, expression) ==
    IF h[expression].cls # "RuleExpression"
    THEN Res(h, RuleCreationError(<<"expression must be type of RuleExpression">>))
    ELSE Res([h EXCEPT ![id].expressions = Append(@, expression)], Ref(id))

\* runner.clear_expressions()
clear_expressions(h, id) == Res([h EXCEPT ![id].expressions = <<>>], Ref(id))

\* One turn of the loop over self._expressions in run_on_iterable.
run_expression(h, expression, current_row, global_change_set) ==
    LET ran == Call("run_on_dict", <<h, expression, current_row>>)
    IN  IF IsErr(ran) THEN ran
        ELSE Ran(ran.row, global_change_set \cup ran.change_set)

\* One turn of the loop over the default mappings that writes what
\* get_dot_notation returned, without the parser of the output type.
run_default_mapping_unparsed(mapping, current_row, global_change_set) ==
    LET input_attribute == mapping[1]
        output_attribute == mapping[2]
        got == Call("get_dot_notation", <<current_row, SpecifierText(input_attribute.dot_specifier)>>)
    IN  IF output_attribute.dot_specifier.t = "str"
           /\ output_attribute.dot_specifier.v \in global_change_set
        THEN Ran(current_row, global_change_set)
        ELSE IF IsErr(got) THEN got
        ELSE LET written == Call("set_dot_notation", <<current_row, SpecifierText(output_attribute.dot_specifier), got>>)
             IN  IF IsErr(written) THEN written ELSE Ran(written, global_change_set)

\* One turn of the loop over the default mappings in run_on_iterable.
run_default_mapping(mapping, current_row, global_change_set) ==
    LET input_attribute == mapping[1]
        output_attribute == mapping[2]
        got == Call("get_dot_notation", <<current_row, SpecifierText(input_attribute.dot_specifier)>>)
        parsed == Call("TYPE_PARSERS", <<output_attribute.attribute_data_type, got>>)
    IN  IF output_attribute.dot_specifier.t = "str"
           /\ output_attribute.dot_specifier.v \in global_change_set
        THEN Ran(current_row, global_change_set)
        ELSE IF IsErr(got) THEN got
        ELSE IF IsErr(parsed) THEN parsed
        ELSE LET written == Call("set_dot_notation", <<current_row, SpecifierText(output_attribute.dot_specifier), parsed>>)
             IN  IF IsErr(written) THEN written ELSE Ran(written, global_change_set)

RECURSIVE run_expressions(_, _, _, _, _)
run_expressions(h, expressions, i, current_row, global_change_set) ==
    IF i > Len(expressions) THEN Ran(current_row, global_change_set)
    ELSE LET ran == Call("run_expression", <<h, expressions[i], current_row, global_change_set>>)
         IN  IF IsErr(ran) THEN ran
             ELSE run_expressions(h, expressions, i + 1, ran.row, ran.change_set)

RECURSIVE run_default_mappings(_, _, _, _)
run_default_mappings(mappings, i, current_row, global_change_set) ==
    IF i > Len(mappings) THEN Ran(current_row, global_change_set)
    ELSE LET ran == Call("run_default_mapping", <<mappings[i], current_row, global_change_set>>)
         IN  IF IsErr(ran) THEN ran
             ELSE run_default_mappings(mappings, i + 1, ran.row, ran.change_set)

\* The body of the loop of run_on_iterable for one row: the row it yields,
\* or what it raises.
run_on_row(h, id, environment, current_row) ==
    LET ran == Call("run_expressions", <<h, h[id].expressions, 1, current_row, {}>>)
        mappings == Call("get_all_default_mappings", <<h, environment>>)
    IN  IF IsErr(ran) THEN ran
        ELSE IF IsErr(mappings) THEN mappings
        ELSE LET mapped == Call("run_default_mappings", <<mappings.v, 1, ran.row, ran.change_set>>)
             IN  IF IsErr(mapped) THEN mapped ELSE mapped.row

(***************************************************************************)
(* types.py: to_dict of every class; the dictionaries are records.         *)
(***************************************************************************)
RECURSIVE container_to_dict(_, _)
\* AndOperatorContainer.to_dict and the same of Or: the comparer calls in
\* one list, the sub-containers in another.
container_to_dict(h, id) ==
    LET members == h[id].compare_objects
        subs == SelectSeq(members, LAMBDA cmp : cmp.m = "container")
        calls == SelectSeq(members, LAMBDA cmp : cmp.m = "comparer")
    IN  [key |-> h[id].cls,
         obj |-> [comparers |-> [i \in 1..Len(calls) |->
                                    [comparer_key |-> calls[i].key,
                                     comparable1 |-> Call("value_to_dict", <<h, calls[i].comparable1>>),
                                     comparable2 |-> Call("value_to_dict", <<h, calls[i].comparable2>>),
                                     selected_collation |-> calls[i].selected_collation,
                                     args |-> [j \in 1..Len(calls[i].args) |->
                                                  Call("value_to_dict", <<h, calls[i].args[j]>>)]]],
                  sub_containers |-> [i \in 1..Len(subs) |-> container_to_dict(h, subs[i].ref)],
                  not_operator |-> h[id].not_operator]]

\* JsonAttribute.to_dict
attribute_to_dict(attr) == [key |-> "JsonAttribute", obj |-> attr]

\* Environment.to_dict
environment_to_dict(h, id) ==
    [key |-> "Environment",
     obj |-> [default_mappings |-> h[id].default_mappings,
              attributes |-> [i \in 1..Len(h[id].attributes) |-> Call("attribute_to_dict", <<h[id].attributes[i]>>)]]]

\* RuleExpression.to_dict
expression_to_dict(h, id) ==
    [key |-> "RuleExpression",
     obj |-> [base_container |-> Call("container_to_dict", <<h, h[id].base_container>>),
              actions |-> [i \in 1..Len(h[id].actions) |->
                              [param_key |-> h[id].actions[i].key,
                               value |-> Call("value_to_dict", <<h, h[id].actions[i].value>>)]]]]

\* RuleRunner.to_dict
runner_to_dict(h, id) ==
    [key |-> "RuleRunner",
     obj |-> [expressions |-> [i \in 1..Len(h[id].expressions) |->
                                  Call("expression_to_dict", <<h, h[id].expressions[i]>>)]]]

\* x.to_dict() of an object of the heap
to_dict(h, id) ==
    CASE IsBaseValue(h[id]) -> Call("value_to_dict", <<h, id>>)
      [] IsBaseContainer(h[id]) -> Call("container_to_dict", <<h, id>>)
      [] h[id].cls = "RuleExpression" -> Call("expression_to_dict", <<h, id>>)
      [] h[id].cls = "RuleRunner" -> Call("runner_to_dict", <<h, id>>)
      [] h[id].cls = "Environment" -> Call("environment_to_dict", <<h, id>>)

(***************************************************************************)
(* types.py: from_dict of every class behind TypesHelper.from_dict_facade. *)
(* What a call returns is a reference, or [t |-> "attr", v |-> attribute]  *)
(* for a JsonAttribute, or [t |-> "refs", v |-> references] for a list.    *)
(***************************************************************************)
Refs(ids) == [t |-> "refs", v |-> ids]

RECURSIVE from_dict_list(_, _)
RECURSIVE filters_from_dict(_, _, _, _)
RECURSIVE sub_containers_from_dict(_, _, _, _)
RECURSIVE comparers_from_dict(_, _, _, _)

\* [TypesHelper.from_dict_facade(x) for x in dicts]
from_dict_list(h, dicts) ==
    IF dicts = <<>> THEN Res(h, Refs(<<>>))
    ELSE LET first == Call("from_dict_facade", <<h, Head(dicts)>>)
             rest == from_dict_list(first.h, Tail(dicts))
         IN  IF IsErr(first.r) THEN first
             ELSE IF IsErr(rest.r) THEN rest
             ELSE Res(rest.h, Refs(<<first.r.v>> \o rest.r.v))

\* The loop over dict_obj["obj"]["filters"] of Constant.from_dict and
\* Attribute.from_dict.
filters_from_dict(h, id, filters, i) ==
    IF i > Len(filters) THEN Res(h, Ref(id))
    ELSE LET args == Call("from_dict_list", <<h, filters[i].args>>)
             added == Call("add_filter", <<args.h, id, filters[i].filter_key, args.r.v>>)
         IN  IF IsErr(args.r) THEN args
             ELSE IF IsErr(added.r) THEN added
             ELSE filters_from_dict(added.h, id, filters, i + 1)

\* Constant.from_dict and Attribute.from_dict
value_from_dict(h, dict_obj) ==
    LET made == IF dict_obj.key = "Constant"
                THEN Call("Constant", <<h, dict_obj.obj.value, dict_obj.obj.type>>)
                ELSE Call("Attribute", <<h, dict_obj.obj.value, dict_obj.obj.type>>)
    IN  IF IsErr(made.r) THEN made
        ELSE Call("filters_from_dict", <<made.h, made.r.v, dict_obj.obj.filters, 1>>)

\* The loop over dict_obj["obj"]["sub_containers"].
sub_containers_from_dict(h, id, sub_containers, i) ==
    IF i > Len(sub_containers) THEN Res(h, Ref(id))
    ELSE LET sub == Call("from_dict_facade", <<h, sub_containers[i]>>)
             added == Call("add_sub_container", <<sub.h, id, sub.r.v>>)
         IN  IF IsErr(sub.r) THEN sub
             ELSE IF IsErr(added.r) THEN added
             ELSE sub_containers_from_dict(added.h, id, sub_containers, i + 1)

\* As comparers_from_dict, but the comparer picks its collation again from
\* the types of the comparables, the serialized one unread.
RECURSIVE comparers_from_dict_unselected(_, _, _, _)
comparers_from_dict_unselected(h, id, comparers, i) ==
    IF i > Len(comparers) THEN Res(h, Ref(id))
    ELSE LET comparer_dict == comparers[i]
             args == Call("from_dict_list", <<h, comparer_dict.args>>)
             comparable1 == Call("from_dict_facade", <<args.h, comparer_dict.comparable1>>)
             comparable2 == Call("from_dict_facade", <<comparable1.h, comparer_dict.comparable2>>)
             added == Call("add_comparer", <<comparable2.h, id, comparer_dict.comparer_key, comparable1.r.v,
                                   comparable2.r.v, NoCollation, args.r.v>>)
         IN  IF IsErr(args.r) THEN args
             ELSE IF IsErr(comparable1.r) THEN comparable1
             ELSE IF IsErr(comparable2.r) THEN comparable2
             ELSE IF IsErr(added.r) THEN added
             ELSE comparers_from_dict_unselected(added.h, id, comparers, i + 1)

\* The loop over dict_obj["obj"]["comparers"]: the stored collation is
\* passed as the explicit collation_type.
comparers_from_dict(h, id, comparers, i) ==
    IF i > Len(comparers) THEN Res(h, Ref(id))
    ELSE LET comparer_dict == comparers[i]
             args == Call("from_dict_list", <<h, comparer_dict.args>>)
             comparable1 == Call("from_dict_facade", <<args.h, comparer_dict.comparable1>>)
             comparable2 == Call("from_dict_facade", <<comparable1.h, comparer_dict.comparable2>>)
             added == Call("add_comparer", <<comparable2.h, id, comparer_dict.comparer_key, comparable1.r.v,
                                   comparable2.r.v, comparer_dict.selected_collation, args.r.v>>)
         IN  IF IsErr(args.r) THEN args
             ELSE IF IsErr(comparable1.r) THEN comparable1
             ELSE IF IsErr(comparable2.r) THEN comparable2
             ELSE IF IsErr(added.r) THEN added
             ELSE comparers_from_dict(added.h, id, comparers, i + 1)

\* AndOperatorContainer.from_dict and OrOperatorContainer.from_dict
container_from_dict(h, dict_obj) ==
    LET made == Call("Container", <<h, dict_obj.key>>)
        subs == Call("sub_containers_from_dict", <<made.h, made.r.v, dict_obj.obj.sub_containers, 1>>)
        calls == Call("comparers_from_dict", <<subs.h, made.r.v, dict_obj.obj.comparers, 1>>)
    IN  IF IsErr(subs.r) THEN subs
        ELSE IF IsErr(calls.r) THEN calls
        ELSE Res(Call("set_not_operator", <<calls.h, made.r.v, dict_obj.obj.not_operator>>).h, made.r)

\* JsonAttribute.from_dict; JsonAttributeType(x) raises ValueError on a
\* string that is no member.
attribute_from_dict(h, dict_obj) ==
    IF dict_obj.obj.attribute_type \notin {INPUT, OUTPUT} THEN Res(h, Err("ValueError"))
    ELSE Res(h, [t |-> "attr", v |-> dict_obj.obj])

RECURSIVE actions_from_dict(_, _, _, _)
\* The loop over current_obj["actions"] of RuleExpression.from_dict.
actions_from_dict(h, id, actions, i) ==
    IF i > Len(actions) THEN Res(h, Ref(id))
    ELSE LET value == Call("from_dict_facade", <<h, actions[i].value>>)
             added == Call("add_action", <<value.h, id, VStr(actions[i].param_key), value.r.v>>)
         IN  IF IsErr(value.r) THEN value
             ELSE IF IsErr(added.r) THEN added
             ELSE actions_from_dict(added.h, id, actions, i + 1)

\* RuleExpression.from_dict
expression_from_dict(h, dict_obj) ==
    LET base_container == Call("from_dict_facade", <<h, dict_obj.obj.base_container>>)
        made == Call("RuleExpression", <<base_container.h, base_container.r.v>>)
    IN  IF IsErr(base_container.r) THEN base_container
        ELSE IF IsErr(made.r) THEN made
        ELSE Call("actions_from_dict", <<made.h, made.r.v, dict_obj.obj.actions, 1>>)

RECURSIVE expressions_from_dict(_, _, _, _)
\* The loop over dict_obj["obj"]["expressions"] of RuleRunner.from_dict.
expressions_from_dict(h, id, expressions, i) ==
    IF i > Len(expressions) THEN Res(h, Ref(id))
    ELSE LET expr == Call("from_dict_facade", <<h, expressions[i]>>)
             added == Call("add_expression", <<expr.h, id, expr.r.v>>)
         IN  IF IsErr(expr.r) THEN expr
             ELSE IF IsErr(added.r) THEN added
             ELSE expressions_from_dict(added.h, id, expressions, i + 1)

\* RuleRunner.from_dict
runner_from_dict(h, dict_obj) ==
    LET made == Call("RuleRunner", <<h>>)
    IN  Call("expressions_from_dict", <<made.h, made.r.v, dict_obj.obj.expressions, 1>>)

RECURSIVE attributes_from_dict(_, _, _, _)
\* The loop over dict_obj["obj"]["attributes"] of Environment.from_dict.
attributes_from_dict(h, id, attributes, i) ==
    IF i > Len(attributes) THEN Res(h, Ref(id))
    ELSE LET attr == Call("from_dict_facade", <<h, attributes[i]>>)
         IN  IF IsErr(attr.r) THEN attr
             ELSE IF attr.r.t # "attr" THEN Res(attr.h, Err("AssertionError"))
             ELSE attributes_from_dict(Call("add_attribute", <<attr.h, id, attr.r.v>>).h, id, attributes, i + 1)

RECURSIVE default_mappings_from_dict(_, _, _, _)
\* The loop over dict_obj["obj"]["default_mappings"] of Environment.from_dict.
default_mappings_from_dict(h, id, default_mappings, i) ==
    IF i > Len(default_mappings) THEN Res(h, Ref(id))
    ELSE LET added == Call("add_default_mapping_with_index", <<h, id, default_mappings[i][1], default_mappings[i][2]>>)
         IN  IF IsErr(added.r) THEN added
             ELSE default_mappings_from_dict(added.h, id, default_mappings, i + 1)

\* Environment.from_dict
environment_from_dict(h, dict_obj) ==
    LET made == Call("Environment", <<h>>)
        attrs == Call("attributes_from_dict", <<made.h, made.r.v, dict_obj.obj.attributes, 1>>)
    IN  IF IsErr(attrs.r) THEN attrs
        ELSE Call("default_mappings_from_dict", <<attrs.h, made.r.v, dict_obj.obj.default_mappings, 1>>)

\* The keys register_for_json holds.
json_reprs == {"Constant", "Attribute", "AndOperator", "OrOperator", "JsonAttribute", "Environment",
               "RuleExpression", "RuleRunner"}

\* TypesHelper.from_dict_facade(dict_obj)
from_dict_facade(h, dict_obj) ==
    IF dict_obj.key \notin json_reprs
    THEN Res(h, RuleCreationError(<<"not a known type for deserializing">>))
    ELSE CASE dict_obj.key \in {"Constant", "Attribute"} -> Call("value_from_dict", <<h, dict_obj>>)
           [] dict_obj.key \in {"AndOperator", "OrOperator"} -> Call("container_from_dict", <<h, dict_obj>>)
           [] dict_obj.key = "JsonAttribute" -> Call("attribute_from_dict", <<h, dict_obj>>)
           [] dict_obj.key = "Environment" -> Call("environment_from_dict", <<h, dict_obj>>)
           [] dict_obj.key = "RuleExpression" -> Call("expression_from_dict", <<h, dict_obj>>)
           [] dict_obj.key = "RuleRunner" -> Call("runner_from_dict", <<h, dict_obj>>)

(***************************************************************************)
(* ruleengine.py: what a caller of set_dot_notation finds in the object it *)
(* passed.  The recursion writes into obj_dc, the objects json.loads built *)
(* from the text of obj, and obj_dc is what is returned: obj is read once. *)
(***************************************************************************)
\* A set_dot_notation that writes into obj itself: what its caller would find
\* in the object it passed.
set_dot_notation_in_place(obj, dot_specifier, value) ==
    LET written == Call("set_dot_notation", <<obj, dot_specifier, value>>)
    IN  IF IsErr(written) THEN obj ELSE written

set_dot_notation_argument(obj, dot_specifier, value) == obj

\* What the caller of run_on_dict finds in the row it passed: row is bound
\* to the returned copy by the first action, so the first set_dot_notation
\* is the one call that is handed the caller's object.
run_on_dict_argument(h, id, row) ==
    LET fires == Call("evaluate", <<h, h[id].base_container, row>>)
        first == h[id].actions[1]
        value == Call("get_value", <<h, first.value, row>>)
    IN  IF IsErr(fires) THEN row
        ELSE IF ~Truthy(fires) \/ h[id].actions = <<>> THEN row
        ELSE IF IsErr(value) THEN row
        ELSE set_dot_notation_argument(row, first.key, value)

\* Whether run_on_dict returns the very object it was passed: no action ran.
run_on_dict_returns_argument(h, id, row) ==
    LET fires == Call("evaluate", <<h, h[id].base_container, row>>)
    IN  ~IsErr(fires) /\ (~Truthy(fires) \/ h[id].actions = <<>>)

(***************************************************************************)
(* tests/test_rulerunner.py: the environments and the programs of the      *)
(* tests, and variations of them, as calls of the builders.                *)
(***************************************************************************)
StrA == <<"a">>
StrB == <<"b">>
StrC == <<"c">>
StrD == <<"d">>
StrCD == <<"c", ".", "d">>
StrAVal == <<"a", ".", "$", "v", "a", "l">>
StrDVal == <<"d", ".", "$", "v", "a", "l">>

\* add_attribute for each attribute of a list, in order.
RECURSIVE add_attributes(_, _, _)
add_attributes(h, id, attrs) ==
    IF attrs = <<>> THEN Res(h, Ref(id))
    ELSE add_attributes(Call("add_attribute", <<h, id, Head(attrs)>>).h, id, Tail(attrs))

\* _fetch_sample_environment(): a.$val in String, b out Numeric, c out
\* Numeric, d in Numeric, and the default mapping a.$val -> b.
sample_environment(h) ==
    LET made == Call("Environment", <<h>>)
        attrs == Call("add_attributes", <<made.h, made.r.v,
                     <<JsonAttribute(VStr(StrAVal), INPUT, "String", "A", "", FALSE, None),
                       JsonAttribute(VStr(StrB), OUTPUT, "Numeric", "B", "", FALSE, None),
                       JsonAttribute(VStr(StrC), OUTPUT, "Numeric", "C", "", FALSE, None),
                       JsonAttribute(VStr(StrD), INPUT, "Numeric", "C", "", FALSE, None)>>>>)
    IN  Res(Call("add_default_mapping_with_index", <<attrs.h, made.r.v, 0, 1>>).h, made.r)

\* The sample environment with the output c.d declared and a second default
\* mapping a.$val -> c.
nested_environment(h) ==
    LET made == Call("sample_environment", <<h>>)
        attrs == Call("add_attribute", <<made.h, made.r.v,
                               JsonAttribute(VStr(StrCD), OUTPUT, "Numeric", "CD", "", FALSE, None)>>)
    IN  Res(Call("add_default_mapping_with_index", <<attrs.h, made.r.v, 0, 2>>).h, made.r)

\* container.add_comparer("equals", Attribute("a.$val", "String"),
\* Constant(k)) for each k of a list, in order.
RECURSIVE add_equals(_, _, _)
add_equals(h, id, constants) ==
    IF constants = <<>> THEN Res(h, Ref(id))
    ELSE LET a == Call("Attribute", <<h, VStr(StrAVal), "String">>)
             k == Call("Constant", <<a.h, Head(constants), NoType>>)
             added == Call("add_comparer", <<k.h, id, "equals", a.r.v, k.r.v, NoCollation, <<>>>>)
         IN  add_equals(added.h, id, Tail(constants))

\* expression.add_action(key, Constant(value)) for each <<key, value>> and
\* expression.add_action(key, Attribute(path, type)) for each
\* <<key, path, type>> of a list, in order.
RECURSIVE add_actions(_, _, _)
add_actions(h, id, actions) ==
    IF actions = <<>> THEN Res(h, Ref(id))
    ELSE LET given == Head(actions)
             k == IF Len(given) = 2 THEN Call("Constant", <<h, given[2], NoType>>)
                  ELSE Call("Attribute", <<h, VStr(given[2]), given[3]>>)
         IN  add_actions(Call("add_action", <<k.h, id, VStr(given[1]), k.r.v>>).h, id, Tail(actions))

\* RuleExpression(container of cls with the equals of the constants),
\* negated or not, with the actions: the expressions of test_on_row.
sample_expression(h, shape) ==
    LET made == Call("Container", <<h, shape.cls>>)
        compared == Call("add_equals", <<made.h, made.r.v, shape.constants>>)
        negated == Call("set_not_operator", <<compared.h, made.r.v, shape.not_operator>>)
        expr == Call("RuleExpression", <<negated.h, made.r.v>>)
    IN  Res(Call("add_actions", <<expr.h, expr.r.v, shape.actions>>).h, expr.r)

\* runner.add_expression(sample_expression(shape))
add_sample_expression(h, id, shape) ==
    LET expr == Call("sample_expression", <<h, shape>>)
    IN  Call("add_expression", <<expr.h, id, expr.r.v>>)

\* The environments: which of the two each run takes.
Environments == {"sample", "nested"}

\* RuleRunner() and the environment of a run, before any expression is added.
Built(env) ==
    LET made == Call("RuleRunner", <<EmptyHeap>>)
        e == IF env = "sample" THEN Call("sample_environment", <<made.h>>)
             ELSE Call("nested_environment", <<made.h>>)
    IN  [heap |-> e.h, runner |-> made.r.v, environment |-> e.r.v]

\* One turn of the loop over self._expressions in run_on_iterable, lines
\* 1214-1216: what it leaves in current_row and global_change_set, and in the
\* row object of the caller.
expression_turn(h, expression, current_row, global_change_set) ==
    [ran |-> Call("run_expression", <<h, expression, current_row, global_change_set>>),
     argument |-> Call("run_on_dict_argument", <<h, expression, current_row>>),
     returns_argument |-> Call("run_on_dict_returns_argument", <<h, expression, current_row>>)]

\* One turn of the loop over the default mappings, lines 1219-1224: what it
\* leaves in current_row, whether line 1221 skipped the mapping, and what
\* the turn leaves in the row object of the caller.
mapping_turn(mapping, current_row, global_change_set) ==
    LET skipped == /\ mapping[2].dot_specifier.t = "str"
                   /\ mapping[2].dot_specifier.v \in global_change_set
        got == Call("get_dot_notation", <<current_row, SpecifierText(mapping[1].dot_specifier)>>)
        parsed == Call("TYPE_PARSERS", <<mapping[2].attribute_data_type, got>>)
    IN  [ran |-> Call("run_default_mapping", <<mapping, current_row, global_change_set>>),
         skipped |-> skipped,
         argument |-> IF ~skipped /\ ~IsErr(got) /\ ~IsErr(parsed)
                      THEN set_dot_notation_argument(current_row,
                               SpecifierText(mapping[2].dot_specifier), parsed)
                      ELSE current_row]

\* One call of set_dot_notation: what it returns or raises, and what it
\* leaves in the object of the caller.
set_turn(obj, dot_specifier, value) ==
    [returned |-> Call("set_dot_notation", <<obj, dot_specifier, value>>),
     argument |-> set_dot_notation_argument(obj, dot_specifier, value)]

\* The objects the builder calls work on: Attribute("a.$val", "String"),
\* Constant(5), Constant(30) and two empty containers, beside the runner and
\* the sample environment.
BuiltPool(root_cls, sub_cls) ==
    LET built == Call("Built", <<"sample">>)
        a == Call("Attribute", <<built.heap, VStr(StrAVal), "String">>)
        k5 == Call("Constant", <<a.h, VInt(5), NoType>>)
        k30 == Call("Constant", <<k5.h, VInt(30), NoType>>)
        root == Call("Container", <<k30.h, root_cls>>)
        sub == Call("Container", <<root.h, sub_cls>>)
    IN  [heap |-> sub.h, runner |-> built.runner, environment |-> built.environment]

\* TypesHelper.from_dict_facade(x.to_dict())
round_trip(h, id) == Call("from_dict_facade", <<h, Call("to_dict", <<h, id>>)>>)

\* The ways a serialized value or container differs from what the current
\* registry admits: a tag, a filter name or a comparer name that is not
\* registered, a collation the comparer does not list, and one argument more
\* than the filter or the comparer takes.
Staleness == {"tag", "sub_tag", "comparer_key", "selected_collation", "comparer_args",
              "filter_key", "filter_args", "comparable_filter_key"}

\* Whether the serialized object has the part that way of staleness is
\* about; the tag is changed on objects that hold a filter, a comparer or a
\* sub-container.
stale_part(dict_obj, how) ==
    CASE how = "tag" ->
            IF dict_obj.key \in {"Constant", "Attribute"}
            THEN Len(dict_obj.obj.filters) > 0
            ELSE Len(dict_obj.obj.comparers) + Len(dict_obj.obj.sub_containers) > 0
      [] how = "sub_tag" ->
            /\ dict_obj.key \in {"AndOperator", "OrOperator"}
            /\ Len(dict_obj.obj.sub_containers) > 0
      [] how \in {"comparer_key", "selected_collation", "comparer_args"} ->
            /\ dict_obj.key \in {"AndOperator", "OrOperator"}
            /\ Len(dict_obj.obj.comparers) > 0
      [] how \in {"filter_key", "filter_args"} ->
            /\ dict_obj.key \in {"Constant", "Attribute"}
            /\ Len(dict_obj.obj.filters) > 0
      [] how = "comparable_filter_key" ->
            /\ dict_obj.key \in {"AndOperator", "OrOperator"}
            /\ Len(dict_obj.obj.comparers) > 0
            /\ Len(dict_obj.obj.comparers[1].comparable1.obj.filters) > 0

\* The serialized object as a file written against another registry has it;
\* extra is a serialized Constant.
stale_dict(dict_obj, how, extra) ==
    CASE how = "tag" -> [dict_obj EXCEPT !.key = "Nope"]
      [] how = "sub_tag" -> [dict_obj EXCEPT !.obj.sub_containers[1].key = "Nope"]
      [] how = "comparer_key" -> [dict_obj EXCEPT !.obj.comparers[1].comparer_key = "nope"]
      [] how = "selected_collation" ->
            [dict_obj EXCEPT !.obj.comparers[1].selected_collation = <<"String", "Dict">>]
      [] how = "comparer_args" -> [dict_obj EXCEPT !.obj.comparers[1].args = Append(@, extra)]
      [] how = "filter_key" -> [dict_obj EXCEPT !.obj.filters[1].filter_key = "nope"]
      [] how = "filter_args" -> [dict_obj EXCEPT !.obj.filters[1].args = Append(@, extra)]
      [] how = "comparable_filter_key" ->
            [dict_obj EXCEPT !.obj.comparers[1].comparable1.obj.filters[1].filter_key = "nope"]

\* TypesHelper.from_dict_facade(dict_obj), dict_obj the serialized object id
\* made stale that way.
rehydrate(h, id, how) ==
    LET extra == Call("to_dict", <<h, CHOOSE c \in DOMAIN h : h[c].cls = "Constant">>)
        written == Call("to_dict", <<h, id>>)
        applies == stale_part(written, how)
        dict_obj == stale_dict(written, how, extra)
    IN  IF applies
        THEN [applies |-> TRUE, dict_obj |-> dict_obj, made |-> Call("from_dict_facade", <<h, dict_obj>>)]
        ELSE [applies |-> FALSE]

\* The expressions that are validated: those of test_environment, and others
\* with the comparer in a sub-container, an Attribute as the value of an
\* action, two actions, or a type other than the declared one. left is <<>>
\* or <<path, type>> of the Attribute compared with Constant(5); the value of
\* an action is <<"Constant", value>> or <<"Attribute", path, type>>.
ValidatedShapes ==
    [plain |-> [left |-> <<StrAVal, "String">>, sub |-> FALSE, actions |-> <<>>],
     cd |-> [left |-> <<StrAVal, "String">>, sub |-> FALSE,
             actions |-> <<[key |-> StrCD, value |-> <<"Constant", VInt(18)>>]>>],
     c |-> [left |-> <<StrAVal, "String">>, sub |-> FALSE,
            actions |-> <<[key |-> StrC, value |-> <<"Constant", VInt(18)>>]>>],
     sub |-> [left |-> <<StrD, "Numeric">>, sub |-> TRUE, actions |-> <<>>],
     from_d |-> [left |-> <<>>, sub |-> FALSE,
                 actions |-> <<[key |-> StrC, value |-> <<"Attribute", StrD, "Numeric">>]>>],
     wrong_in |-> [left |-> <<StrD, "DateTime">>, sub |-> FALSE, actions |-> <<>>],
     wrong_out |-> [left |-> <<>>, sub |-> FALSE,
                    actions |-> <<[key |-> StrC, value |-> <<"Constant", VBool(TRUE)>>]>>],
     c_and_cd |-> [left |-> <<>>, sub |-> FALSE,
                   actions |-> <<[key |-> StrC, value |-> <<"Constant", VInt(1)>>],
                                 [key |-> StrCD, value |-> <<"Constant", VInt(2)>>]>>]]

\* expression.add_action(key, Constant(value)) or
\* expression.add_action(key, Attribute(path, type)) for each action of a
\* list, in order.
RECURSIVE add_valued_actions(_, _, _)
add_valued_actions(h, id, actions) ==
    IF actions = <<>> THEN Res(h, Ref(id))
    ELSE LET given == Head(actions).value
             made == IF given[1] = "Constant" THEN Call("Constant", <<h, given[2], NoType>>)
                     ELSE Call("Attribute", <<h, VStr(given[2]), given[3]>>)
             added == Call("add_action", <<made.h, id, VStr(Head(actions).key), made.r.v>>)
         IN  add_valued_actions(added.h, id, Tail(actions))

\* RuleExpression(AndOperatorContainer()...) of a shape: the comparer
\* equals(Attribute(left), Constant(5)) in the container or in an
\* OrOperatorContainer added to it, then the actions.
validated_expression(h, shape) ==
    LET made == Call("Container", <<h, "AndOperator">>)
        inner == IF shape.sub THEN Call("Container", <<made.h, "OrOperator">>) ELSE made
        a == Call("Attribute", <<inner.h, VStr(shape.left[1]), shape.left[2]>>)
        k == Call("Constant", <<a.h, VInt(5), NoType>>)
        compared == IF shape.left = <<>> THEN inner
                    ELSE Call("add_comparer", <<k.h, inner.r.v, "equals", a.r.v, k.r.v, NoCollation, <<>>>>)
        held == IF shape.sub THEN Call("add_sub_container", <<compared.h, made.r.v, inner.r.v>>)
                ELSE compared
        expr == Call("RuleExpression", <<held.h, made.r.v>>)
    IN  Res(Call("add_valued_actions", <<expr.h, expr.r.v, shape.actions>>).h, expr.r)

\* RuleRunner(), Environment() and the expression that is validated.
EnvPool(name) ==
    LET made == Call("RuleRunner", <<EmptyHeap>>)
        e == Call("Environment", <<made.h>>)
    IN  [heap |-> Call("validated_expression", <<e.h, ValidatedShapes[name]>>).h,
         runner |-> made.r.v, environment |-> e.r.v]

\* A call of one operator by another: the callee by its name, on the tuple of
\* its arguments.
Call(op, args) ==
    CASE op = "PyFloatOfStr" -> PyFloatOfStr(args[1])
      [] op = "PyStr" -> PyStr(args[1])
      [] op = "json_copy" -> json_copy(args[1])
      [] op = "parse_dict" -> parse_dict(args[1])
      [] op = "parse_boolean" -> parse_boolean(args[1])
      [] op = "parse_numeric" -> parse_numeric(args[1])
      [] op = "parse_datetime" -> parse_datetime(args[1])
      [] op = "parse_string" -> parse_string(args[1])
      [] op = "parse_numeric_list" -> parse_numeric_list(args[1])
      [] op = "parse_datetime_list" -> parse_datetime_list(args[1])
      [] op = "parse_string_list" -> parse_string_list(args[1])
      [] op = "parse_dict_list" -> parse_dict_list(args[1])
      [] op = "parse_boolean_list" -> parse_boolean_list(args[1])
      [] op = "split_dots" -> split_dots(args[1])
      [] op = "unescape_dots" -> unescape_dots(args[1])
      [] op = "specifier_keys" -> specifier_keys(args[1])
      [] op = "index_specifier_match" -> index_specifier_match(args[1], args[2])
      [] op = "split_commas" -> split_commas(args[1])
      [] op = "subscription_items" -> subscription_items(args[1])
      [] op = "split_colons" -> split_colons(args[1])
      [] op = "parse_subscription" -> parse_subscription(args[1])
      [] op = "slice_positions" -> slice_positions(args[1], args[2], args[3], args[4])
      [] op = "list_slice" -> list_slice(args[1], args[2], args[3], args[4])
      [] op = "flatten" -> flatten(args[1])
      [] op = "get_subscription_notation_recursive" -> get_subscription_notation_recursive(args[1], args[2])
      [] op = "get_dot_notation_recursive" -> get_dot_notation_recursive(args[1], args[2])
      [] op = "get_dot_notation" -> get_dot_notation(args[1], args[2])
      [] op = "list_assign_slice" -> list_assign_slice(args[1], args[2], args[3], args[4], args[5])
      [] op = "set_each" -> set_each(args[1], args[2], args[3], args[4])
      [] op = "set_dot_notation_recursive" -> set_dot_notation_recursive(args[1], args[2], args[3])
      [] op = "set_subscription_notation" -> set_subscription_notation(args[1], args[2], args[3], args[4])
      [] op = "set_dot_notation" -> set_dot_notation(args[1], args[2], args[3])
      [] op = "TYPE_PARSERS" -> TYPE_PARSERS(args[1], args[2])
      [] op = "extract_allowed_types" -> extract_allowed_types(args[1])
      [] op = "implicit_parse" -> implicit_parse(args[1], args[2])
      [] op = "value_to_json_compatible_single" -> value_to_json_compatible_single(args[1])
      [] op = "value_to_json_compatible" -> value_to_json_compatible(args[1])
      [] op = "sort_manipulation_types" -> sort_manipulation_types(args[1])
      [] op = "equals" -> equals(args[1], args[2])
      [] op = "includes" -> includes(args[1], args[2])
      [] op = "string_includes_ignorecase" -> string_includes_ignorecase(args[1], args[2])
      [] op = "string_to_numeric" -> string_to_numeric(args[1])
      [] op = "numeric_to_string" -> numeric_to_string(args[1])
      [] op = "unixepoch_to_datetime" -> unixepoch_to_datetime(args[1])
      [] op = "subvalue_test" -> subvalue_test(args[1], args[2], args[3], args[4])
      [] op = "first_by_subvalue" -> first_by_subvalue(args[1], args[2], args[3], args[4])
      [] op = "all_by_subvalue" -> all_by_subvalue(args[1], args[2], args[3], args[4])
      [] op = "filter_by_subvalue_include" -> filter_by_subvalue_include(args[1], args[2], args[3])
      [] op = "filter_by_subvalue" -> filter_by_subvalue(args[1], args[2], args[3])
      [] op = "multiple_filter_by_subvalue_include" -> multiple_filter_by_subvalue_include(args[1], args[2], args[3])
      [] op = "multiple_filter_by_subvalue" -> multiple_filter_by_subvalue(args[1], args[2], args[3])
      [] op = "extract_with_dot_specifier" -> extract_with_dot_specifier(args[1], args[2], args[3])
      [] op = "extract_with_dot_specifier_to_string" -> extract_with_dot_specifier_to_string(args[1], args[2])
      [] op = "extract_with_dot_specifier_to_numeric" -> extract_with_dot_specifier_to_numeric(args[1], args[2])
      [] op = "filter_method" -> filter_method(args[1], args[2], args[3])
      [] op = "comparer_method" -> comparer_method(args[1], args[2], args[3], args[4])
      [] op = "try_extract_type_from" -> try_extract_type_from(args[1], args[2])
      [] op = "try_extract_type" -> try_extract_type(args[1])
      [] op = "Constant_set_input" -> Constant_set_input(args[1], args[2], args[3])
      [] op = "Constant" -> Constant(args[1], args[2], args[3])
      [] op = "Attribute_set_input" -> Attribute_set_input(args[1], args[2])
      [] op = "Attribute" -> Attribute(args[1], args[2], args[3])
      [] op = "set_input" -> set_input(args[1], args[2], args[3])
      [] op = "clear_filters" -> clear_filters(args[1], args[2])
      [] op = "set_input_type" -> set_input_type(args[1], args[2], args[3])
      [] op = "first_admitting" -> first_admitting(args[1], args[2], args[3])
      [] op = "first_exact" -> first_exact(args[1], args[2], args[3])
      [] op = "filter_of" -> filter_of(args[1])
      [] op = "get_type_from" -> get_type_from(args[1], args[2], args[3])
      [] op = "get_type" -> get_type(args[1], args[2])
      [] op = "fetch_addable_filters" -> fetch_addable_filters(args[1], args[2])
      [] op = "args_detail" -> args_detail(args[1], args[2], args[3], args[4])
      [] op = "add_filter" -> add_filter(args[1], args[2], args[3], args[4])
      [] op = "get_value" -> get_value(args[1], args[2], args[3])
      [] op = "run_filters" -> run_filters(args[1], args[2], args[3], args[4], args[5], args[6])
      [] op = "value_to_dict" -> value_to_dict(args[1], args[2])
      [] op = "Container" -> Container(args[1], args[2])
      [] op = "AndOperatorContainer" -> AndOperatorContainer(args[1])
      [] op = "OrOperatorContainer" -> OrOperatorContainer(args[1])
      [] op = "collation_exact" -> collation_exact(args[1], args[2], args[3], args[4])
      [] op = "collation_admitting" -> collation_admitting(args[1], args[2], args[3], args[4])
      [] op = "select_collation" -> select_collation(args[1], args[2], args[3], args[4])
      [] op = "add_comparer" -> add_comparer(args[1], args[2], args[3], args[4], args[5], args[6], args[7])
      [] op = "add_sub_container" -> add_sub_container(args[1], args[2], args[3])
      [] op = "clear_objects" -> clear_objects(args[1], args[2])
      [] op = "set_not_operator" -> set_not_operator(args[1], args[2], args[3])
      [] op = "comparer_arg_value" -> comparer_arg_value(args[1], args[2], args[3], args[4])
      [] op = "evaluate_comparable_obj" -> evaluate_comparable_obj(args[1], args[2], args[3])
      [] op = "evaluate" -> evaluate(args[1], args[2], args[3])
      [] op = "Environment" -> Environment(args[1])
      [] op = "query" -> query(args[1], args[2], args[3], args[4], args[5], args[6], args[7], args[8])
      [] op = "add_attribute" -> add_attribute(args[1], args[2], args[3])
      [] op = "clear_attributes" -> clear_attributes(args[1], args[2])
      [] op = "add_default_mapping_with_index" -> add_default_mapping_with_index(args[1], args[2], args[3], args[4])
      [] op = "attribute_index" -> attribute_index(args[1], args[2], args[3])
      [] op = "add_default_mapping" -> add_default_mapping(args[1], args[2], args[3], args[4])
      [] op = "get_all_default_mappings" -> get_all_default_mappings(args[1], args[2])
      [] op = "value_validate" -> value_validate(args[1], args[2], args[3])
      [] op = "container_validate" -> container_validate(args[1], args[2], args[3])
      [] op = "expression_validate" -> expression_validate(args[1], args[2], args[3])
      [] op = "validate_with_environment" -> validate_with_environment(args[1], args[2], args[3])
      [] op = "RuleExpression" -> RuleExpression(args[1], args[2])
      [] op = "add_action" -> add_action(args[1], args[2], args[3], args[4])
      [] op = "clear_actions" -> clear_actions(args[1], args[2])
      [] op = "run_actions" -> run_actions(args[1], args[2], args[3], args[4], args[5])
      [] op = "run_on_dict" -> run_on_dict(args[1], args[2], args[3])
      [] op = "RuleRunner" -> RuleRunner(args[1])
      [] op = "add_expression" -> add_expression(args[1], args[2], args[3])
      [] op = "clear_expressions" -> clear_expressions(args[1], args[2])
      [] op = "run_expression" -> run_expression(args[1], args[2], args[3], args[4])
      [] op = "run_default_mapping" -> run_default_mapping(args[1], args[2], args[3])
      [] op = "run_expressions" -> run_expressions(args[1], args[2], args[3], args[4], args[5])
      [] op = "run_default_mappings" -> run_default_mappings(args[1], args[2], args[3], args[4])
      [] op = "run_on_row" -> run_on_row(args[1], args[2], args[3], args[4])
      [] op = "container_to_dict" -> container_to_dict(args[1], args[2])
      [] op = "attribute_to_dict" -> attribute_to_dict(args[1])
      [] op = "environment_to_dict" -> environment_to_dict(args[1], args[2])
      [] op = "expression_to_dict" -> expression_to_dict(args[1], args[2])
      [] op = "runner_to_dict" -> runner_to_dict(args[1], args[2])
      [] op = "to_dict" -> to_dict(args[1], args[2])
      [] op = "from_dict_list" -> from_dict_list(args[1], args[2])
      [] op = "filters_from_dict" -> filters_from_dict(args[1], args[2], args[3], args[4])
      [] op = "value_from_dict" -> value_from_dict(args[1], args[2])
      [] op = "sub_containers_from_dict" -> sub_containers_from_dict(args[1], args[2], args[3], args[4])
      [] op = "comparers_from_dict" -> comparers_from_dict(args[1], args[2], args[3], args[4])
      [] op = "container_from_dict" -> container_from_dict(args[1], args[2])
      [] op = "attribute_from_dict" -> attribute_from_dict(args[1], args[2])
      [] op = "actions_from_dict" -> actions_from_dict(args[1], args[2], args[3], args[4])
      [] op = "expression_from_dict" -> expression_from_dict(args[1], args[2])
      [] op = "expressions_from_dict" -> expressions_from_dict(args[1], args[2], args[3], args[4])
      [] op = "runner_from_dict" -> runner_from_dict(args[1], args[2])
      [] op = "attributes_from_dict" -> attributes_from_dict(args[1], args[2], args[3], args[4])
      [] op = "default_mappings_from_dict" -> default_mappings_from_dict(args[1], args[2], args[3], args[4])
      [] op = "environment_from_dict" -> environment_from_dict(args[1], args[2])
      [] op = "from_dict_facade" -> from_dict_facade(args[1], args[2])
      [] op = "run_on_dict_argument" -> run_on_dict_argument(args[1], args[2], args[3])
      [] op = "run_on_dict_returns_argument" -> run_on_dict_returns_argument(args[1], args[2], args[3])
      [] op = "add_attributes" -> add_attributes(args[1], args[2], args[3])
      [] op = "sample_environment" -> sample_environment(args[1])
      [] op = "nested_environment" -> nested_environment(args[1])
      [] op = "add_equals" -> add_equals(args[1], args[2], args[3])
      [] op = "add_actions" -> add_actions(args[1], args[2], args[3])
      [] op = "sample_expression" -> sample_expression(args[1], args[2])
      [] op = "add_sample_expression" -> add_sample_expression(args[1], args[2], args[3])
      [] op = "Built" -> Built(args[1])
      [] op = "expression_turn" -> expression_turn(args[1], args[2], args[3], args[4])
      [] op = "mapping_turn" -> mapping_turn(args[1], args[2], args[3])
      [] op = "set_turn" -> set_turn(args[1], args[2], args[3])
      [] op = "BuiltPool" -> BuiltPool(args[1], args[2])
      [] op = "round_trip" -> round_trip(args[1], args[2])
      [] op = "get_value_type_from" -> get_value_type_from(args[1], args[2], args[3])
      [] op = "add_registered_filters" -> add_registered_filters(args[1], args[2], args[3], args[4])
      [] op = "threaded" -> threaded(args[1], args[2], args[3])
      [] op = "rehydrate" -> rehydrate(args[1], args[2], args[3])
      [] op = "BusinessRuleEngine" -> BusinessRuleEngine(args[1])
      [] op = "prepare_params" -> prepare_params(args[1])
      [] op = "registered_key" -> registered_key(args[1], args[2], args[3], args[4])
      [] op = "filter" -> filter(args[1], args[2], args[3], args[4], args[5], args[6], args[7])
      [] op = "comparer" -> comparer(args[1], args[2], args[3], args[4], args[5], args[6], args[7], args[8])
      [] op = "add_valued_actions" -> add_valued_actions(args[1], args[2], args[3])
      [] op = "validated_expression" -> validated_expression(args[1], args[2])
      [] op = "EnvPool" -> EnvPool(args[1])

(***************************************************************************)
(* The state: the heap of built objects, and the position and the locals   *)
(* of one run_on_iterable generator over iter_object; for the path engine  *)
(* one object with a path and a value; for the builders the last call.     *)
(***************************************************************************)
VARIABLES heap, runner, environment, program, iter_object, pc, row_index, expression_index,
          default_mappings, mapping_index, current_row, global_change_set, aliased, yielded,
          raised, obj, dot_specifier, value, returned

vars == <<heap, runner, environment, program, iter_object, pc, row_index, expression_index,
          default_mappings, mapping_index, current_row, global_change_set, aliased, yielded,
          raised, obj, dot_specifier, value, returned>>

PathVars == <<obj, dot_specifier, value>>

\* The longest input stream of a run.
MaxRows == 2

\* The rows of the input streams.
Rows == {VDict(StrA :> VStr(<<"5">>)),
         VDict(StrA :> VStr(<<"5", ".", "0">>)),
         VDict(StrA :> VStr(<<"3", "0", ".", "0">>)),
         VDict(StrA :> VStr(<<"3", "0", ".", "0">>) @@ StrC :> VDict(EmptyDict)),
         VDict(StrA :> VStr(<<"x">>) @@ StrB :> VInt(1))}

\* The expressions of the programs: those of test_on_row, and others with
\* several actions, a negation, an empty container, the action path c.d, an
\* action on the path a the conditions read, or an action whose value is
\* the Attribute a.$val (a path and a type for a value).
ExpressionShapes ==
    [and2 |-> [cls |-> "AndOperator", not_operator |-> FALSE, constants |-> <<VInt(5), VInt(30)>>,
               actions |-> <<<<StrC, VInt(35)>>>>],
     or2 |-> [cls |-> "OrOperator", not_operator |-> FALSE, constants |-> <<VInt(5), VInt(30)>>,
              actions |-> <<<<StrC, VInt(35)>>>>],
     twice |-> [cls |-> "AndOperator", not_operator |-> FALSE, constants |-> <<>>,
                actions |-> <<<<StrC, VInt(1)>>, <<StrB, VInt(7)>>, <<StrC, VInt(2)>>>>],
     nor1 |-> [cls |-> "OrOperator", not_operator |-> TRUE, constants |-> <<VInt(5)>>,
               actions |-> <<<<StrB, VStr(<<"9">>)>>, <<StrD, VBool(TRUE)>>>>],
     nested |-> [cls |-> "AndOperator", not_operator |-> FALSE, constants |-> <<VInt(30)>>,
                 actions |-> <<<<StrCD, VInt(1)>>>>],
     never |-> [cls |-> "AndOperator", not_operator |-> TRUE, constants |-> <<>>,
                actions |-> <<<<StrB, VInt(0)>>>>],
     seta |-> [cls |-> "AndOperator", not_operator |-> FALSE, constants |-> <<>>,
               actions |-> <<<<StrA, VInt(5)>>>>],
     copy |-> [cls |-> "AndOperator", not_operator |-> FALSE, constants |-> <<>>,
               actions |-> <<<<StrA, VInt(30)>>, <<StrB, StrAVal, "String">>>>]]

\* The programs: the sequences of expressions each run takes one of.
Programs == {<<"and2">>, <<"or2">>, <<"twice">>, <<"or2", "twice">>, <<"twice", "or2">>,
             <<"nor1", "and2">>, <<"nested">>, <<"nested", "or2">>, <<"never", "nor1">>, <<>>,
             <<"seta", "or2">>, <<"copy">>}

\* The sequences over a set of length at most n.
SeqUpTo(S, n) == UNION {[1..k -> S] : k \in 0..n}

NoPath ==
    /\ obj = None
    /\ dot_specifier = <<>>
    /\ value = None

\* RuleRunner() and one of the environments.
InitBuilt(envs) ==
    \E env \in envs :
        \E built \in {Call("Built", <<env>>)} :
            /\ heap = built.heap
            /\ runner = built.runner
            /\ environment = built.environment

\* The variables of run_on_iterable before it is called.
NoRun ==
    /\ program = <<>>
    /\ iter_object = <<>>
    /\ row_index = 0
    /\ expression_index = 0
    /\ default_mappings = <<>>
    /\ mapping_index = 0
    /\ current_row = None
    /\ global_change_set = {}
    /\ aliased = FALSE
    /\ yielded = <<>>
    /\ raised = None

RunVars == <<program, iter_object, row_index, expression_index, default_mappings, mapping_index,
             current_row, global_change_set, aliased, yielded, raised>>

Init ==
    /\ InitBuilt(Environments)
    /\ NoRun
    /\ pc = "build"
    /\ returned = None
    /\ NoPath

\* runner.add_expression(expression), the expression built from one of the
\* shapes, while the program stays one of Programs or a prefix of one.
AddExpression ==
    /\ pc = "build"
    /\ \E name \in DOMAIN ExpressionShapes :
          /\ \E longer \in Programs :
                /\ Len(longer) > Len(program)
                /\ SubSeq(longer, 1, Len(program) + 1) = Append(program, name)
          /\ \E added \in {Call("add_sample_expression", <<heap, runner, ExpressionShapes[name]>>)} :
                heap' = added.h
          /\ program' = Append(program, name)
    /\ UNCHANGED <<runner, environment, iter_object, pc, row_index, expression_index,
                   default_mappings, mapping_index, current_row, global_change_set, aliased,
                   yielded, raised, returned>>
    /\ UNCHANGED PathVars

\* lines 1209-1211: run_on_iterable(iter_object, environment) is called and
\* its generator is created
Run ==
    /\ pc = "build"
    /\ program \in Programs
    /\ iter_object' \in SeqUpTo(Rows, MaxRows)
    /\ pc' = "row"
    /\ UNCHANGED <<heap, runner, environment, program, row_index, expression_index,
                   default_mappings, mapping_index, current_row, global_change_set, aliased,
                   yielded, raised, returned>>
    /\ UNCHANGED PathVars

\* As NextRow, but the change set of the row before is kept.
NextRowKeepingChangeSet ==
    /\ pc = "row"
    /\ row_index < Len(iter_object)
    /\ row_index' = row_index + 1
    /\ current_row' = iter_object[row_index + 1]
    /\ aliased' = TRUE
    /\ expression_index' = 1
    /\ pc' = "expression"
    /\ UNCHANGED <<heap, runner, environment, program, iter_object, default_mappings,
                   mapping_index, yielded, raised, returned, global_change_set>>
    /\ UNCHANGED PathVars

\* line 1212, for current_row in iter_object, and line 1213
NextRow ==
    /\ pc = "row"
    /\ row_index < Len(iter_object)
    /\ row_index' = row_index + 1
    /\ current_row' = iter_object[row_index + 1]
    /\ aliased' = TRUE
    /\ global_change_set' = {}
    /\ expression_index' = 1
    /\ pc' = "expression"
    /\ UNCHANGED <<heap, runner, environment, program, iter_object, default_mappings,
                   mapping_index, yielded, raised, returned>>
    /\ UNCHANGED PathVars

\* line 1212 when iter_object is exhausted: the generator returns
Exhausted ==
    /\ pc = "row"
    /\ row_index = Len(iter_object)
    /\ pc' = "done"
    /\ UNCHANGED <<heap, runner, environment, program, iter_object, row_index, expression_index,
                   default_mappings, mapping_index, current_row, global_change_set, aliased,
                   yielded, raised, returned>>
    /\ UNCHANGED PathVars

\* lines 1214-1216: one expression runs on the row
Expression ==
    /\ pc = "expression"
    /\ expression_index <= Len(heap[runner].expressions)
    /\ \E turn \in {Call("expression_turn", <<heap, heap[runner].expressions[expression_index],
                                              current_row, global_change_set>>)} :
          /\ iter_object' = IF aliased THEN [iter_object EXCEPT ![row_index] = turn.argument]
                            ELSE iter_object
          /\ IF IsErr(turn.ran)
             THEN /\ pc' = "raised"
                  /\ raised' = turn.ran
                  /\ UNCHANGED <<current_row, global_change_set, expression_index, aliased>>
             ELSE /\ current_row' = turn.ran.row
                  /\ global_change_set' = turn.ran.change_set
                  /\ expression_index' = expression_index + 1
                  /\ aliased' = (aliased /\ turn.returns_argument)
                  /\ UNCHANGED <<pc, raised>>
    /\ UNCHANGED <<heap, runner, environment, program, row_index, default_mappings, mapping_index,
                   yielded, returned>>
    /\ UNCHANGED PathVars

\* line 1218: the expressions are over, the default mappings are fetched
Mappings ==
    /\ pc = "expression"
    /\ expression_index > Len(heap[runner].expressions)
    /\ \E mappings \in {Call("get_all_default_mappings", <<heap, environment>>)} :
          IF IsErr(mappings)
          THEN /\ pc' = "raised"
               /\ raised' = mappings
               /\ UNCHANGED <<default_mappings, mapping_index>>
          ELSE /\ pc' = "mapping"
               /\ default_mappings' = mappings.v
               /\ mapping_index' = 1
               /\ UNCHANGED raised
    /\ UNCHANGED <<heap, runner, environment, program, iter_object, row_index, expression_index,
                   current_row, global_change_set, aliased, yielded, returned>>
    /\ UNCHANGED PathVars

\* lines 1219-1224: one default mapping
Mapping ==
    /\ pc = "mapping"
    /\ mapping_index <= Len(default_mappings)
    /\ \E turn \in {Call("mapping_turn", <<default_mappings[mapping_index], current_row,
                                           global_change_set>>)} :
          /\ iter_object' = IF aliased THEN [iter_object EXCEPT ![row_index] = turn.argument]
                            ELSE iter_object
          /\ IF IsErr(turn.ran)
             THEN /\ pc' = "raised"
                  /\ raised' = turn.ran
                  /\ UNCHANGED <<current_row, mapping_index, aliased>>
             ELSE /\ current_row' = turn.ran.row
                  /\ mapping_index' = mapping_index + 1
                  /\ aliased' = (aliased /\ turn.skipped)
                  /\ UNCHANGED <<pc, raised>>
    /\ UNCHANGED <<heap, runner, environment, program, row_index, expression_index,
                   default_mappings, global_change_set, yielded, returned>>
    /\ UNCHANGED PathVars

\* line 1226: yield current_row
Yield ==
    /\ pc = "mapping"
    /\ mapping_index > Len(default_mappings)
    /\ yielded' = Append(yielded, current_row)
    /\ pc' = "row"
    /\ UNCHANGED <<heap, runner, environment, program, iter_object, row_index, expression_index,
                   default_mappings, mapping_index, current_row, global_change_set, aliased,
                   raised, returned>>
    /\ UNCHANGED PathVars

Next == AddExpression \/ Run \/ NextRow \/ Exhausted \/ Expression \/ Mappings \/ Mapping \/ Yield

Spec == Init /\ [][Next]_vars

(***************************************************************************)
(* The path engine called directly: set_dot_notation on an object, a path  *)
(* and a value, then get_dot_notation on what it returned, beside the runs *)
(* of run_on_iterable, the other caller of set_dot_notation.               *)
(***************************************************************************)
StrX == <<"x">>
StrK == <<"k">>

PathObjects ==
    {VDict(EmptyDict),
     VDict(StrA :> VInt(1)),
     VDict(StrA :> VStr(<<"3", "0", ".", "0">>)),
     VDict(StrC :> VDict(EmptyDict)),
     VDict(StrC :> VDict(StrD :> VInt(1))),
     VDict(StrX :> VList(<<VInt(10), VInt(20), VInt(30)>>)),
     VDict(StrX :> VList(<<VDict(StrK :> VInt(1)), VDict(StrK :> VInt(2))>>)),
     VDict(StrX :> VList(<<VList(<<VInt(1), VInt(2)>>), VList(<<VInt(3), VInt(4)>>)>>)),
     VDict(StrC :> None),
     VList(<<VDict(StrA :> VInt(1)), VDict(StrA :> VInt(2))>>),
     VInt(5)}

PathSpecifiers ==
    {StrA, StrC, StrCD, StrAVal,
     <<"c", ".", "$", "v", "a", "l">>,
     <<"x", "[", "0", "]">>,
     <<"x", "[", "0", "]", ".", "$", "v", "a", "l">>,
     <<"x", "[", "1", ":", "3", "]">>,
     <<"x", "[", "0", ":", "1", "]">>,
     <<"x", "[", "5", "]">>,
     <<"x", ".", "k">>,
     <<"x", "[", "0", "]", ".", "k">>,
     <<"x", "[", "0", ",", "1", "]">>,
     <<"x", "[", "0", ",", "2", "]">>,
     <<"x", ".", "$", "v", "a", "l">>,
     StrX,
     <<"c", ".", "x", "[", "0", "]">>}

PathValues == {None, VInt(7), VStr(<<"s">>), VList(<<VInt(8), VInt(9)>>), VDict(StrK :> VInt(3))}

InitPath ==
    \/ Init
    \/ /\ InitBuilt({"sample"})
       /\ NoRun
       /\ pc = "path"
       /\ returned = None
       /\ obj \in PathObjects
       /\ dot_specifier \in PathSpecifiers
       /\ value \in PathValues

\* lines 373-386: DotNotation.set_dot_notation(obj, dot_specifier, value)
SetDotNotation ==
    /\ pc = "path"
    /\ \E turn \in {Call("set_turn", <<obj, dot_specifier, value>>)} :
          /\ returned' = turn.returned
          /\ obj' = turn.argument
    /\ pc' = "set"
    /\ UNCHANGED <<heap, runner, environment, dot_specifier, value>>
    /\ UNCHANGED RunVars

\* lines 347-371: DotNotation.get_dot_notation(new_obj, dot_specifier) on
\* the object set_dot_notation returned
GetDotNotation ==
    /\ pc = "set"
    /\ ~IsErr(returned)
    /\ \E got \in {Call("get_dot_notation", <<returned, dot_specifier>>)} :
          returned' = got
    /\ pc' = "got"
    /\ UNCHANGED <<heap, runner, environment>>
    /\ UNCHANGED PathVars
    /\ UNCHANGED RunVars

\* lines 347-371: DotNotation.get_dot_notation(obj, dot_specifier)
ReadDotNotation ==
    /\ pc = "path"
    /\ \E got \in {Call("get_dot_notation", <<obj, dot_specifier>>)} :
          returned' = got
    /\ pc' = "read"
    /\ UNCHANGED <<heap, runner, environment>>
    /\ UNCHANGED PathVars
    /\ UNCHANGED RunVars

NextPath == SetDotNotation \/ GetDotNotation \/ ReadDotNotation \/ Next

SpecPath == InitPath /\ [][NextPath]_vars

(***************************************************************************)
(* The builders called in any order on a few objects, then evaluate on a   *)
(* row or the round trip through to_dict and from_dict_facade.             *)
(***************************************************************************)
\* The most members of containers and filters of value sources, together.
MaxParts == 2

ContainerClasses == {"AndOperator", "OrOperator"}
BuildComparers == {"equals"}
BuildFilters == {"string_to_numeric"}
BuildTypes == {"Numeric", "Dict"}
BuildRows == {VDict(StrA :> VStr(<<"5", ".", "0">>)), VDict(StrA :> VStr(<<"x">>))}

Containers(h) == {id \in DOMAIN h : IsBaseContainer(h[id])}
ValueSources(h) == {id \in DOMAIN h : IsBaseValue(h[id])}
Constants(h) == {id \in DOMAIN h : h[id].cls = "Constant"}

\* The members of the containers and the filters of the value sources of
\* the objects from the id-th on, counted.
RECURSIVE Parts(_, _)
Parts(h, id) ==
    IF id > Len(h) THEN 0
    ELSE Parts(h, id + 1)
         + (IF IsBaseContainer(h[id]) THEN Len(h[id].compare_objects)
            ELSE IF IsBaseValue(h[id]) THEN Len(h[id].filters)
            ELSE 0)

\* Whether container id holds container other, directly or through its
\* sub-containers.
RECURSIVE Holds(_, _, _)
Holds(h, id, other) ==
    \E i \in 1..Len(h[id].compare_objects) :
        /\ h[id].compare_objects[i].m = "container"
        /\ \/ h[id].compare_objects[i].ref = other
           \/ Holds(h, h[id].compare_objects[i].ref, other)

InitBuild ==
    /\ \E root_cls \in ContainerClasses, sub_cls \in ContainerClasses :
          \E built \in {Call("BuiltPool", <<root_cls, sub_cls>>)} :
              /\ heap = built.heap
              /\ runner = built.runner
              /\ environment = built.environment
    /\ NoRun
    /\ pc = "builder"
    /\ returned = None
    /\ NoPath

\* lines 619-690: container.add_comparer(name, comparable1, comparable2), the
\* right side a Constant
AddComparer ==
    /\ pc = "builder"
    /\ Parts(heap, 1) < MaxParts
    /\ \E id \in Containers(heap), comparable1 \in ValueSources(heap),
          comparable2 \in Constants(heap), name \in BuildComparers :
          \E added \in {Call("add_comparer", <<heap, id, name, comparable1, comparable2,
                                               NoCollation, <<>>>>)} :
              heap' = added.h
    /\ UNCHANGED <<runner, environment, pc, returned>>
    /\ UNCHANGED PathVars
    /\ UNCHANGED RunVars

\* lines 692-696: container.add_sub_container(other), other a container
\* made after this one that is not yet held by it
AddSubContainer ==
    /\ pc = "builder"
    /\ Parts(heap, 1) < MaxParts
    /\ \E id \in Containers(heap), other \in Containers(heap) :
          /\ other > id
          /\ ~Holds(heap, id, other)
          /\ \E added \in {Call("add_sub_container", <<heap, id, other>>)} :
                heap' = added.h
    /\ UNCHANGED <<runner, environment, pc, returned>>
    /\ UNCHANGED PathVars
    /\ UNCHANGED RunVars

\* lines 583-587: container.not_operator = value
SetNotOperator ==
    /\ pc = "builder"
    /\ \E id \in Containers(heap), b \in BOOLEAN :
          \E done \in {Call("set_not_operator", <<heap, id, b>>)} :
              heap' = done.h
    /\ UNCHANGED <<runner, environment, pc, returned>>
    /\ UNCHANGED PathVars
    /\ UNCHANGED RunVars

\* x.set_input_type(type_name) of a Constant or an Attribute
SetInputType ==
    /\ pc = "builder"
    /\ \E id \in ValueSources(heap), type_name \in BuildTypes :
          \E done \in {Call("set_input_type", <<heap, id, type_name>>)} :
              heap' = done.h
    /\ UNCHANGED <<runner, environment, pc, returned>>
    /\ UNCHANGED PathVars
    /\ UNCHANGED RunVars

\* x.add_filter(filter_name) of a Constant or an Attribute
AddFilter ==
    /\ pc = "builder"
    /\ Parts(heap, 1) < MaxParts
    /\ \E id \in ValueSources(heap), filter_name \in BuildFilters :
          \E added \in {Call("add_filter", <<heap, id, filter_name, <<>>>>)} :
              heap' = added.h
    /\ UNCHANGED <<runner, environment, pc, returned>>
    /\ UNCHANGED PathVars
    /\ UNCHANGED RunVars

\* x.clear_filters() of a Constant or an Attribute
ClearFilters ==
    /\ pc = "builder"
    /\ \E id \in ValueSources(heap) :
          \E done \in {Call("clear_filters", <<heap, id>>)} :
              heap' = done.h
    /\ UNCHANGED <<runner, environment, pc, returned>>
    /\ UNCHANGED PathVars
    /\ UNCHANGED RunVars

\* lines 611-617: container.evaluate(row)
Evaluate ==
    /\ pc = "builder"
    /\ \E id \in Containers(heap), row \in BuildRows :
          \E result \in {Call("evaluate", <<heap, id, row>>)} :
              returned' = [container |-> id, row |-> row, result |-> result]
    /\ pc' = "evaluated"
    /\ UNCHANGED <<heap, runner, environment>>
    /\ UNCHANGED PathVars
    /\ UNCHANGED RunVars

\* TypesHelper.from_dict_facade(x.to_dict()) of an object; the objects it
\* builds are in the heap it returns.
RoundTrip ==
    /\ pc = "builder"
    /\ \E id \in DOMAIN heap :
          \E made \in {Call("round_trip", <<heap, id>>)} :
              returned' = [of |-> id, made |-> made]
    /\ pc' = "rebuilt"
    /\ UNCHANGED <<heap, runner, environment>>
    /\ UNCHANGED PathVars
    /\ UNCHANGED RunVars

\* lines 215-220: TypesHelper.from_dict_facade(dict_obj), dict_obj the
\* serialized form of a value source or a container as a file written
\* against another registry has it.
Rehydrate ==
    /\ pc = "builder"
    /\ \E id \in Containers(heap) \cup ValueSources(heap), how \in Staleness :
          \E got \in {Call("rehydrate", <<heap, id, how>>)} :
              /\ got.applies
              /\ returned' = [of |-> id, how |-> how, dict_obj |-> got.dict_obj, made |-> got.made]
    /\ pc' = "rehydrated"
    /\ UNCHANGED <<heap, runner, environment>>
    /\ UNCHANGED PathVars
    /\ UNCHANGED RunVars

NextBuild ==
    \/ AddComparer \/ AddSubContainer \/ SetNotOperator \/ SetInputType
    \/ AddFilter \/ ClearFilters \/ Evaluate \/ RoundTrip \/ Rehydrate

SpecBuild == InitBuild /\ [][NextBuild]_vars

(***************************************************************************)
(* The calls on an Environment, and the validation of expressions against  *)
(* the environment they leave.                                             *)
(***************************************************************************)
\* The most attributes and the most default mappings of an environment.
MaxAttributes == 3
MaxMappings == 1

\* The attributes that are added: a.$val, c and d of
\* _fetch_sample_environment, and c read-only.
EnvAttributes ==
    {JsonAttribute(VStr(StrAVal), INPUT, "String", "A", "", FALSE, None),
     JsonAttribute(VStr(StrC), OUTPUT, "Numeric", "C", "", FALSE, None),
     JsonAttribute(VStr(StrC), OUTPUT, "Numeric", "C", "", TRUE, None),
     JsonAttribute(VStr(StrD), INPUT, "Numeric", "C", "", FALSE, None)}

\* The indexes handed to add_default_mapping_with_index: those of Python,
\* from the front and from the back.
EnvIndexes == {-2, -1, 0, 1}

\* The RuleExpression objects of a heap.
Expressions(h) == {id \in DOMAIN h : h[id].cls = "RuleExpression"}

InitEnv ==
    /\ \E name \in DOMAIN ValidatedShapes :
          \E built \in {Call("EnvPool", <<name>>)} :
              /\ heap = built.heap
              /\ runner = built.runner
              /\ environment = built.environment
    /\ NoRun
    /\ pc = "environment"
    /\ returned = None
    /\ NoPath

\* lines 1007-1016: environment.add_attribute(attr)
AddAttribute ==
    /\ pc = "environment"
    /\ Len(heap[environment].attributes) < MaxAttributes
    /\ \E attr \in EnvAttributes :
          \E added \in {Call("add_attribute", <<heap, environment, attr>>)} :
              /\ heap' = added.h
              /\ returned' = added.r
    /\ UNCHANGED <<runner, environment, pc>>
    /\ UNCHANGED PathVars
    /\ UNCHANGED RunVars

\* lines 1034-1039: environment.clear_attributes()
ClearAttributes ==
    /\ pc = "environment"
    /\ \E cleared \in {Call("clear_attributes", <<heap, environment>>)} :
          /\ heap' = cleared.h
          /\ returned' = cleared.r
    /\ UNCHANGED <<runner, environment, pc>>
    /\ UNCHANGED PathVars
    /\ UNCHANGED RunVars

\* lines 1041-1054: environment.add_default_mapping(input_attribute,
\* output_attribute), which raises or returns the environment
AddDefaultMapping ==
    /\ pc = "environment"
    /\ Len(heap[environment].default_mappings) < MaxMappings
    /\ \E input_attribute \in EnvAttributes, output_attribute \in EnvAttributes :
          \E added \in {Call("add_default_mapping",
                             <<heap, environment, input_attribute, output_attribute>>)} :
              /\ heap' = added.h
              /\ returned' = added.r
    /\ UNCHANGED <<runner, environment, pc>>
    /\ UNCHANGED PathVars
    /\ UNCHANGED RunVars

\* lines 1056-1071: environment.add_default_mapping_with_index(input_index,
\* output_index), which raises or returns the environment
AddDefaultMappingWithIndex ==
    /\ pc = "environment"
    /\ Len(heap[environment].default_mappings) < MaxMappings
    /\ \E input_index \in EnvIndexes, output_index \in EnvIndexes :
          \E added \in {Call("add_default_mapping_with_index",
                             <<heap, environment, input_index, output_index>>)} :
              /\ heap' = added.h
              /\ returned' = added.r
    /\ UNCHANGED <<runner, environment, pc>>
    /\ UNCHANGED PathVars
    /\ UNCHANGED RunVars

\* lines 1026-1032: environment.get_all_default_mappings()
GetAllDefaultMappings ==
    /\ pc = "environment"
    /\ \E got \in {Call("get_all_default_mappings", <<heap, environment>>)} :
          returned' = got
    /\ pc' = "mappings"
    /\ UNCHANGED <<heap, runner, environment>>
    /\ UNCHANGED PathVars
    /\ UNCHANGED RunVars

\* lines 1122-1132: expression.validate_with_environment(environment)
Validate ==
    /\ pc = "environment"
    /\ \E id \in Expressions(heap) :
          \E result \in {Call("expression_validate", <<heap, id, environment>>)} :
              returned' = [expression |-> id, result |-> result]
    /\ pc' = "validated"
    /\ UNCHANGED <<heap, runner, environment>>
    /\ UNCHANGED PathVars
    /\ UNCHANGED RunVars

NextEnv ==
    \/ AddAttribute \/ ClearAttributes \/ AddDefaultMapping \/ AddDefaultMappingWithIndex
    \/ GetAllDefaultMappings \/ Validate

SpecEnv == InitEnv /\ [][NextEnv]_vars

(***************************************************************************)
(* The registrations of filters and comparers on a BusinessRuleEngine.     *)
(***************************************************************************)
\* The most keys of a registry.
MaxRegistered == 2

\* The manipulation types of the filters that are registered: none, one, two
\* and three of them with the String input first, one input with two
\* outputs, and a type that is not of ALLOWED_TYPES.
RegisteredManipulations ==
    {<<>>,
     <<<<"String", "Numeric">>>>,
     <<<<"String", "Numeric">>, <<"Numeric", "String">>>>,
     <<<<"String", "Numeric">>, <<"Numeric", "DateTime">>, <<"Dict", "String">>>>,
     <<<<"String", "Numeric">>, <<"String", "Dict">>>>,
     <<<<"Text", "String">>>>}

\* The collation types of the comparers that are registered.
RegisteredCollations ==
    {<<>>,
     <<<<"String", "String">>>>,
     <<<<"String", "String">>, <<"Numeric", "Numeric">>>>,
     <<<<"String", "String">>, <<"String", "Numeric">>, <<"Numeric", "Numeric">>>>,
     <<<<"String", "String">>, <<"String", "String">>>>,
     <<<<"String", "Text">>>>}

\* The params: none, the one of the builtin filters, and one of an unknown
\* type.
RegisteredParams ==
    {<<>>,
     <<[pretty_name |-> <<"Value">>, type |-> <<"String">>, description |-> <<"">>,
        value_classes |-> <<"Constant">>]>>,
     <<[pretty_name |-> <<"Value">>, type |-> <<"Text">>, description |-> <<"">>,
        value_classes |-> <<"Constant">>]>>}

\* The methods that are decorated: of one, two or three parameters.
RegisteredMethods == {[name |-> <<"m">>, parameters |-> n] : n \in 1..3}

\* The key and _builtin arguments: a builtin and another method under their
\* names, and a method under the key "k".
RegisteredAs ==
    {[key |-> <<>>, builtin |-> TRUE],
     [key |-> <<>>, builtin |-> FALSE],
     [key |-> <<<<"k">>>>, builtin |-> FALSE]}

\* The keys of a registry, of filters and of comparers.
Registered(h, id) ==
    Cardinality(DOMAIN h[id].system_available_filters)
    + Cardinality(DOMAIN h[id].system_available_comparers)

InitRegistry ==
    /\ \E made \in {Call("BusinessRuleEngine", <<EmptyHeap>>)} :
          /\ heap = made.h
          /\ runner = made.r.v
          /\ environment = made.r.v
    /\ NoRun
    /\ pc = "registry"
    /\ returned = None
    /\ NoPath

\* No registration has raised: one that raises ends the import of the module
\* it decorates, and nothing is registered or built after it.
Decorated == "result" \in DOMAIN returned => ~IsErr(returned.result)

\* lines 65-113: instance.filter(...)(method_def), which raises or returns
\* the method
RegisterFilter ==
    /\ pc = "registry"
    /\ Decorated
    /\ Registered(heap, runner) < MaxRegistered
    /\ \E as \in RegisteredAs, manipulation_types \in RegisteredManipulations,
          params \in RegisteredParams, method_def \in RegisteredMethods :
          \E made \in {Call("filter", <<heap, runner, as.key, manipulation_types, params,
                                        as.builtin, method_def>>)} :
              /\ heap' = made.h
              /\ returned' = [registered |-> "filter", types |-> manipulation_types,
                              params |-> params, method_def |-> method_def, result |-> made.r]
    /\ UNCHANGED <<runner, environment, pc>>
    /\ UNCHANGED PathVars
    /\ UNCHANGED RunVars

\* lines 115-167: instance.comparer(...)(method_def), which raises or returns
\* the method
RegisterComparer ==
    /\ pc = "registry"
    /\ Decorated
    /\ Registered(heap, runner) < MaxRegistered
    /\ \E as \in RegisteredAs, collation_types \in RegisteredCollations,
          params \in RegisteredParams, method_def \in RegisteredMethods :
          \E made \in {Call("comparer", <<heap, runner, as.key, collation_types, params,
                                          <<"Constant", "Attribute">>, as.builtin, method_def>>)} :
              /\ heap' = made.h
              /\ returned' = [registered |-> "comparer", types |-> collation_types,
                              params |-> params, method_def |-> method_def, result |-> made.r]
    /\ UNCHANGED <<runner, environment, pc>>
    /\ UNCHANGED PathVars
    /\ UNCHANGED RunVars

\* The types of the value sources the registered filters are added to, and
\* the most filters added to one.
ThreadedTypes == {"String", "Numeric", "Dict"}
MaxThreaded == 2

\* lines 458-483, 530-545 and 433-456: Attribute("a", value_type) is made,
\* registered filters are added to it, and get_type() and get_value(row)
\* thread its type through them
ThreadTypes ==
    /\ pc = "registry"
    /\ Decorated
    /\ \E n \in 1..MaxThreaded :
          \E names \in [1..n -> DOMAIN heap[runner].system_available_filters],
             value_type \in ThreadedTypes :
             \E got \in {Call("threaded", <<heap[runner].system_available_filters, names, value_type>>)} :
                 returned' = got
    /\ pc' = "threaded"
    /\ UNCHANGED <<heap, runner, environment>>
    /\ UNCHANGED PathVars
    /\ UNCHANGED RunVars

\* The types of the comparables of add_comparer and its collation_type
\* argument: none, three pairs, and a list of one type.
CollatedTypes == {"Numeric", "Boolean", "Dict"}
GivenCollations == {NoCollation, <<"String", "String">>, <<"Numeric", "Numeric">>,
                    <<"Dict", "Dict">>, <<"String">>}

\* lines 631-667: add_comparer(name, comparable1, comparable2, collation_type)
\* of a registered comparer selects the collation, the comparables an
\* Attribute and a Constant of those types
SelectCollation ==
    /\ pc = "registry"
    /\ Decorated
    /\ \E name \in DOMAIN heap[runner].system_available_comparers,
          cmp1_type \in CollatedTypes, cmp2_type \in CollatedTypes,
          collation_type \in GivenCollations :
          \E selected \in {Call("select_collation",
                                 <<heap[runner].system_available_comparers[name], cmp1_type,
                                   cmp2_type, collation_type>>)} :
              returned' = [collated |-> name, cmp1_type |-> cmp1_type, cmp2_type |-> cmp2_type,
                           collation_type |-> collation_type, result |-> selected]
    /\ pc' = "collated"
    /\ UNCHANGED <<heap, runner, environment>>
    /\ UNCHANGED PathVars
    /\ UNCHANGED RunVars

NextRegistry == RegisterFilter \/ RegisterComparer \/ ThreadTypes \/ SelectCollation

SpecRegistry == InitRegistry /\ [][NextRegistry]_vars

(***************************************************************************)
(* One value source, a Constant or an Attribute, made and then changed     *)
(* through its own methods against the registry of builtins.py.            *)
(***************************************************************************)
\* The most filters of the value source.
MaxFilters == 2

\* The values and the types Constant(value, value_type) is called with.
ConstantInputs == {VInt(5), VStr(<<"G", "o", "l", "d">>), VStr(<<"5">>), VBool(TRUE), None,
                   VDict(EmptyDict), VList(<<>>), VList(<<VInt(1), VStr(<<"a">>)>>),
                   VList(<<VStr(<<"a">>), VBigInt>>)}
ConstantTypes == {NoType, "String", "Numeric", "Text"}

\* The paths and the types Attribute(value_dot_notation, value_type) is
\* called with.
AttributeInputs == {VStr(StrA), VStr(StrD)}
AttributeTypes == {"String", "Dict", "DictList", "Text"}

\* The arguments of set_input and set_input_type.
SetInputs == {VInt(7), VStr(<<"x">>), VStr(StrA)}
SetInputTypes == {"String", "Numeric", "Dict", "Text"}

\* The filters add_filter is called with, one of them in no registry, and
\* the arguments by their places in the heap: the String Constant, the
\* String Attribute and the Dict Constant of ValuePool.
ValueFilters == {"string_to_numeric", "numeric_to_string", "unixepoch_to_datetime",
                 "extract_with_dot_specifier_to_numeric", "filter_by_subvalue", "nope"}
ValueArgs == {<<>>, <<1>>, <<2>>, <<1, 1>>, <<2, 3>>, <<3, 1>>}

\* The rows get_value is called with.
ValueRows == {VDict(StrA :> VStr(<<"5">>) @@ StrD :> VDict(StrK :> VStr(<<"5">>))),
              VDict(StrA :> VStr(<<"x">>) @@ StrD :> VList(<<VDict(StrK :> VStr(<<"x">>))>>))}

\* The value sources that are passed as arguments of filters.
ValuePool ==
    LET k == Call("Constant", <<EmptyHeap, VStr(StrK), "String">>)
        a == Call("Attribute", <<k.h, VStr(StrA), "String">>)
        d == Call("Constant", <<a.h, VDict(EmptyDict), "Dict">>)
    IN  d.h

\* The record of a call: its name, its arguments and what it returned or
\* raised.
Called(name, args, result) == [call |-> name, args |-> args, result |-> result]

InitValue ==
    /\ heap = ValuePool
    /\ runner = 0
    /\ environment = 0
    /\ NoRun
    /\ pc = "source"
    /\ returned = None
    /\ NoPath

\* lines 387-398: Constant(value, value_type); runner is the place of the
\* value source in the heap.
NewConstant ==
    /\ pc = "source"
    /\ \E v \in ConstantInputs, value_type \in ConstantTypes :
          \E made \in {Call("Constant", <<heap, v, value_type>>)} :
              /\ heap' = made.h
              /\ returned' = Called("Constant", <<v, value_type>>, made.r)
              /\ runner' = IF IsErr(made.r) THEN runner ELSE made.r.v
              /\ pc' = IF IsErr(made.r) THEN "raised" ELSE "value"
    /\ UNCHANGED environment
    /\ UNCHANGED PathVars
    /\ UNCHANGED RunVars

\* lines 549-557: Attribute(value_dot_notation, value_type)
NewAttribute ==
    /\ pc = "source"
    /\ \E path \in AttributeInputs, value_type \in AttributeTypes :
          \E made \in {Call("Attribute", <<heap, path, value_type>>)} :
              /\ heap' = made.h
              /\ returned' = Called("Attribute", <<path, value_type>>, made.r)
              /\ runner' = IF IsErr(made.r) THEN runner ELSE made.r.v
              /\ pc' = IF IsErr(made.r) THEN "raised" ELSE "value"
    /\ UNCHANGED environment
    /\ UNCHANGED PathVars
    /\ UNCHANGED RunVars

\* lines 294-319 and 458-483: x.add_filter(filter_name, *args)
AddFilterWithArgs ==
    /\ pc = "value"
    /\ Len(heap[runner].filters) < MaxFilters
    /\ \E filter_name \in ValueFilters, args \in ValueArgs :
          \E added \in {Call("add_filter", <<heap, runner, filter_name, args>>)} :
              /\ heap' = added.h
              /\ returned' = Called("add_filter", <<filter_name, args>>, added.r)
    /\ UNCHANGED <<runner, environment, pc>>
    /\ UNCHANGED PathVars
    /\ UNCHANGED RunVars

\* lines 240-242 and 422-424: x.clear_filters()
ClearFilterChain ==
    /\ pc = "value"
    /\ \E done \in {Call("clear_filters", <<heap, runner>>)} :
          /\ heap' = done.h
          /\ returned' = Called("clear_filters", <<>>, done.r)
    /\ UNCHANGED <<runner, environment, pc>>
    /\ UNCHANGED PathVars
    /\ UNCHANGED RunVars

\* lines 252-267 and 426-432: x.set_input(value)
SetInput ==
    /\ pc = "value"
    /\ \E v \in SetInputs :
          \E done \in {Call("set_input", <<heap, runner, v>>)} :
              /\ heap' = done.h
              /\ returned' = Called("set_input", <<v>>, done.r)
    /\ UNCHANGED <<runner, environment, pc>>
    /\ UNCHANGED PathVars
    /\ UNCHANGED RunVars

\* lines 357-368 and 521-528: x.set_input_type(type_name)
SetInputTypeOfSource ==
    /\ pc = "value"
    /\ \E type_name \in SetInputTypes :
          \E done \in {Call("set_input_type", <<heap, runner, type_name>>)} :
              /\ heap' = done.h
              /\ returned' = Called("set_input_type", <<type_name>>, done.r)
    /\ UNCHANGED <<runner, environment, pc>>
    /\ UNCHANGED PathVars
    /\ UNCHANGED RunVars

\* lines 370-385 and 530-545: x.get_type()
GetType ==
    /\ pc = "value"
    /\ \E got \in {Call("get_type", <<heap, runner>>)} :
          returned' = Called("get_type", <<>>, got)
    /\ UNCHANGED <<heap, runner, environment, pc>>
    /\ UNCHANGED PathVars
    /\ UNCHANGED RunVars

\* lines 269-292 and 433-456: x.get_value(row)
GetValue ==
    /\ pc = "value"
    /\ \E row \in ValueRows :
          \E got \in {Call("get_value", <<heap, runner, row>>)} :
              returned' = Called("get_value", <<row>>, got)
    /\ UNCHANGED <<heap, runner, environment, pc>>
    /\ UNCHANGED PathVars
    /\ UNCHANGED RunVars

NextValue ==
    \/ NewConstant \/ NewAttribute \/ AddFilterWithArgs \/ ClearFilterChain
    \/ SetInput \/ SetInputTypeOfSource \/ GetType \/ GetValue

SpecValue == InitValue /\ [][NextValue]_vars

(***************************************************************************)
(* The builder calls on a container, a value source, an expression and a   *)
(* runner, with arguments they take and arguments they reject.             *)
(***************************************************************************)
\* The most members, filters, actions and expressions, together.
MaxMembers == 2

\* The members, filters, actions and expressions of the objects from the
\* id-th on, counted.
RECURSIVE Members(_, _)
Members(h, id) ==
    IF id > Len(h) THEN 0
    ELSE Members(h, id + 1)
         + (IF IsBaseContainer(h[id]) THEN Len(h[id].compare_objects)
            ELSE IF IsBaseValue(h[id]) THEN Len(h[id].filters)
            ELSE IF h[id].cls = "RuleExpression" THEN Len(h[id].actions)
            ELSE IF h[id].cls = "RuleRunner" THEN Len(h[id].expressions)
            ELSE 0)

\* The names and the collations the calls are made with: one of each that
\* is registered or fits, one that is not.
ArtifactComparers == {"equals", "nope"}
ArtifactFilters == {"string_to_numeric", "nope"}
ArtifactCollations == {NoCollation, <<"Dict", "Dict">>}

\* The objects of BuiltPool and RuleExpression(root), root the first of its
\* containers.
InitArtifact ==
    /\ \E built \in {Call("BuiltPool", <<"AndOperator", "OrOperator">>)} :
          \E root \in Containers(built.heap) :
              /\ \A c \in Containers(built.heap) : root <= c
              /\ \E expr \in {Call("RuleExpression", <<built.heap, root>>)} :
                    heap = expr.h
              /\ runner = built.runner
              /\ environment = built.environment
    /\ NoRun
    /\ pc = "artifact"
    /\ returned = None
    /\ NoPath

\* lines 619-690: container.add_comparer(name, comparable1, comparable2,
\* collation_type), the right side a Constant
CallAddComparer ==
    /\ pc = "artifact"
    /\ Members(heap, 1) < MaxMembers
    /\ \E id \in Containers(heap), name \in ArtifactComparers,
          comparable1 \in ValueSources(heap), comparable2 \in Constants(heap),
          collation_type \in ArtifactCollations :
          \E added \in {Call("add_comparer", <<heap, id, name, comparable1, comparable2,
                                               collation_type, <<>>>>)} :
              /\ heap' = added.h
              /\ returned' = Called("add_comparer",
                                    <<id, name, comparable1, comparable2, collation_type>>, added.r)
    /\ UNCHANGED <<runner, environment, pc>>
    /\ UNCHANGED PathVars
    /\ UNCHANGED RunVars

\* lines 692-696: container.add_sub_container(other), other a container
\* made after this one or a value source
CallAddSubContainer ==
    /\ pc = "artifact"
    /\ Members(heap, 1) < MaxMembers
    /\ \E id \in Containers(heap), other \in Containers(heap) \cup ValueSources(heap) :
          /\ other \in Containers(heap) => (other > id /\ ~Holds(heap, id, other))
          /\ \E added \in {Call("add_sub_container", <<heap, id, other>>)} :
                /\ heap' = added.h
                /\ returned' = Called("add_sub_container", <<id, other>>, added.r)
    /\ UNCHANGED <<runner, environment, pc>>
    /\ UNCHANGED PathVars
    /\ UNCHANGED RunVars

\* lines 583-587: container.not_operator = value
CallSetNotOperator ==
    /\ pc = "artifact"
    /\ \E id \in Containers(heap), b \in BOOLEAN :
          \E done \in {Call("set_not_operator", <<heap, id, b>>)} :
              /\ heap' = done.h
              /\ returned' = Called("not_operator", <<id, b>>, done.r)
    /\ UNCHANGED <<runner, environment, pc>>
    /\ UNCHANGED PathVars
    /\ UNCHANGED RunVars

\* lines 294-319 and 458-483: x.add_filter(filter_name)
CallAddFilter ==
    /\ pc = "artifact"
    /\ Members(heap, 1) < MaxMembers
    /\ \E id \in ValueSources(heap), filter_name \in ArtifactFilters :
          \E added \in {Call("add_filter", <<heap, id, filter_name, <<>>>>)} :
              /\ heap' = added.h
              /\ returned' = Called("add_filter", <<id, filter_name>>, added.r)
    /\ UNCHANGED <<runner, environment, pc>>
    /\ UNCHANGED PathVars
    /\ UNCHANGED RunVars

\* lines 1093-1097: expression.add_action(key, value), value a value source
\* or a container
CallAddAction ==
    /\ pc = "artifact"
    /\ Members(heap, 1) < MaxMembers
    /\ \E id \in Expressions(heap), key \in {StrB, StrC},
          v \in ValueSources(heap) \cup Containers(heap) :
          \E added \in {Call("add_action", <<heap, id, VStr(key), v>>)} :
              /\ heap' = added.h
              /\ returned' = Called("add_action", <<id, key, v>>, added.r)
    /\ UNCHANGED <<runner, environment, pc>>
    /\ UNCHANGED PathVars
    /\ UNCHANGED RunVars

\* lines 1180-1190: runner.add_expression(expression), expression a
\* RuleExpression or a container
CallAddExpression ==
    /\ pc = "artifact"
    /\ Members(heap, 1) < MaxMembers
    /\ \E expression \in Expressions(heap) \cup Containers(heap) :
          \E added \in {Call("add_expression", <<heap, runner, expression>>)} :
              /\ heap' = added.h
              /\ returned' = Called("add_expression", <<runner, expression>>, added.r)
    /\ UNCHANGED <<runner, environment, pc>>
    /\ UNCHANGED PathVars
    /\ UNCHANGED RunVars

NextArtifact ==
    \/ CallAddComparer \/ CallAddSubContainer \/ CallSetNotOperator \/ CallAddFilter
    \/ CallAddAction \/ CallAddExpression

SpecArtifact == InitArtifact /\ [][NextArtifact]_vars



(***************************************************************************)
(* Properties of run_on_iterable.                                          *)
(***************************************************************************)
\* The value a row holds at the path of an action key.
ValueAt(row, key) == Call("get_dot_notation", <<row, key \o <<".", "$", "v", "a", "l">>>>)

\* The row the i-th action of an expression finds: the row the expression
\* was given after the actions before the i-th.
RECURSIVE RowBefore(_, _, _, _)
RowBefore(h, actions, i, row) ==
    IF i = 1 THEN row
    ELSE LET before == RowBefore(h, actions, i - 1, row)
         IN  Call("set_dot_notation",
                  <<before, actions[i - 1].key,
                    Call("get_value", <<h, actions[i - 1].value, before>>)>>)

\* C1: every step of run_on_iterable from one expression of a row to the next
\* runs the expression that was added at that position, and when it fires,
\* each of its action keys holds in the row the value of the last action
\* that was added with that key.
C1_ExpressionsAndActionsInOrder ==
    [][(pc = "expression" /\ pc' = "expression" /\ expression_index' # expression_index) =>
          LET expression == heap[heap[runner].expressions[expression_index]]
              actions == expression.actions
              shape == ExpressionShapes[program[expression_index]]
              fires == Call("evaluate", <<heap, expression.base_container, current_row>>)
          IN  /\ expression_index' = expression_index + 1
              /\ Len(actions) = Len(shape.actions)
              /\ \A i \in 1..Len(actions) : actions[i].key = shape.actions[i][1]
              /\ Truthy(fires) =>
                    \A i \in 1..Len(actions) :
                        (\A j \in (i + 1)..Len(actions) : actions[j].key # actions[i].key) =>
                            ValueAt(current_row', actions[i].key)
                                = Call("get_value", <<heap, actions[i].value,
                                                      RowBefore(heap, actions, i, current_row)>>)]_vars

\* C1: the expression with the actions c := 1, b := 7, c := 2 has fired on a
\* row, which holds 2 at c.
C1_Witness ==
    /\ pc = "expression"
    /\ expression_index > 1
    /\ program[expression_index - 1] = "twice"
    /\ global_change_set = {StrB, StrC}
    /\ ValueAt(current_row, StrC)
          = Call("get_value", <<heap, heap[heap[runner].expressions[expression_index - 1]].actions[3].value,
                                current_row>>)
    /\ ValueAt(current_row, StrC) \in {VInt(2), VFloat(2)}

\* The keys of a sequence of actions.
ActionKeys(actions) == {actions[i].key : i \in 1..Len(actions)}

\* What a default mapping writes: the value at its input path, parsed as the
\* type of its output attribute.
MappedValue(mapping, row) ==
    Call("TYPE_PARSERS", <<mapping[2].attribute_data_type,
                           Call("get_dot_notation", <<row, SpecifierText(mapping[1].dot_specifier)>>)>>)

\* C2: the default mappings run only after every expression of the row, and
\* a default mapping leaves every path that an action of the row assigned
\* with the value it held.
C2_MappingsKeepAssignments ==
    [][/\ (pc = "expression" /\ pc' = "mapping") =>
              expression_index > Len(heap[runner].expressions)
       /\ (pc = "mapping" /\ pc' = "mapping") =>
              \A key \in global_change_set :
                  ValueAt(current_row', key) = ValueAt(current_row, key)]_vars

\* C3: a default mapping whose output path is not in the change set writes
\* the value at its input path, parsed as the type of the output attribute,
\* at the output path, and a mapping whose output path is in the change set
\* leaves the row as it is; the row that is yielded holds that value at the
\* output path of every mapping that was not skipped, and b when a.$val -> b
\* is a default mapping.
C3_DefaultMappingWritesParsedInput ==
    [][/\ (pc = "mapping" /\ pc' = "mapping") =>
              LET mapping == default_mappings[mapping_index]
                  output == SpecifierText(mapping[2].dot_specifier)
              IN  /\ mapping_index' = mapping_index + 1
                  /\ IF output \in global_change_set
                     THEN current_row' = current_row
                     ELSE ValueAt(current_row', output) = MappedValue(mapping, current_row)
       /\ (pc = "mapping" /\ pc' = "row") =>
              /\ yielded' = Append(yielded, current_row)
              /\ \A i \in 1..Len(default_mappings) :
                    LET output == SpecifierText(default_mappings[i][2].dot_specifier)
                    IN  /\ output \notin global_change_set =>
                              ValueAt(current_row, output) = MappedValue(default_mappings[i], current_row)
                        /\ output = StrB => StrB \in DOMAIN current_row.v]_vars

\* C3: the Or of test_on_row has run on the row {"a": "5.0"}, which was
\* yielded with 35.0 at c from the action and 5.0 at b from the mapping.
C3_Witness ==
    /\ program = <<"or2">>
    /\ Len(yielded) = 1
    /\ iter_object[1] = VDict(StrA :> VStr(<<"5", ".", "0">>))
    /\ global_change_set = {StrC}
    /\ yielded[1] = VDict(StrA :> VStr(<<"5", ".", "0">>) @@ StrB :> VFloat(5) @@ StrC :> VFloat(35))

\* C4: a step of run_on_iterable in which run_on_dict returns has written
\* every action path and added every action key to the change set when the
\* root container evaluates true on the row, and has left the row and the
\* change set as they were when it evaluates false; the And of the two
\* equals of test_on_row leaves every row as it is.
C4_ActionsIffContainerTrue ==
    [][(pc = "expression" /\ pc' = "expression" /\ expression_index' # expression_index) =>
          LET expression == heap[heap[runner].expressions[expression_index]]
              fires == Call("evaluate", <<heap, expression.base_container, current_row>>)
          IN  /\ IF Truthy(fires)
                 THEN /\ global_change_set' = global_change_set \cup ActionKeys(expression.actions)
                      /\ \A key \in ActionKeys(expression.actions) :
                            ~IsErr(ValueAt(current_row', key))
                 ELSE /\ global_change_set' = global_change_set
                      /\ current_row' = current_row
              /\ program[expression_index] = "and2" =>
                    (~Truthy(fires) /\ current_row' = current_row)]_vars

\* C4: the And of test_on_row has left the row {"a": "5"} without c and with
\* an empty change set.
C4_WitnessAnd ==
    /\ pc = "expression"
    /\ program = <<"and2">>
    /\ expression_index = 2
    /\ current_row = VDict(StrA :> VStr(<<"5">>))
    /\ global_change_set = {}

\* C4: the Or of test_on_row has written c in the row {"a": "5.0"}.
C4_Witness ==
    /\ pc = "expression"
    /\ program = <<"or2">>
    /\ expression_index = 2
    /\ current_row = VDict(StrA :> VStr(<<"5", ".", "0">>) @@ StrC :> VFloat(35))
    /\ global_change_set = {StrC}

\* The exceptions of path resolution.
StructuralErrors == {"DotNotationError", "SubscriptionError", "KeyError", "IndexError",
                     "AttributeError", "TypeError"}

\* C9: when validate_with_environment(environment) is true of the runner,
\* run_on_iterable raises no exception of path resolution.
C9_ValidatedRunRaisesNoStructuralError ==
    (pc = "raised" /\ Call("validate_with_environment", <<heap, runner, environment>>))
        => raised.v \notin StructuralErrors

(***************************************************************************)
(* Properties of the containers and of the builders.                       *)
(***************************************************************************)
\* What the i-th member of a container gives on a row.
MemberResult(h, id, i, row) ==
    IF h[id].compare_objects[i].m = "container"
    THEN Call("evaluate", <<h, h[id].compare_objects[i].ref, row>>)
    ELSE Call("evaluate_comparable_obj", <<h, h[id].compare_objects[i], row>>)

\* C5: evaluate(row) of an And container is the conjunction, and of an Or
\* container the disjunction, of what its comparer calls and sub-containers
\* give on the row, negated when not_operator is set; an empty And gives
\* true and an empty Or false, the opposite when not_operator is set; and
\* evaluate raises when a member raises.
C5_EvaluateIsConjunctionOrDisjunction ==
    pc = "evaluated" =>
        LET self == heap[returned.container]
            n == Len(self.compare_objects)
            results == [i \in 1..n |-> MemberResult(heap, returned.container, i, returned.row)]
            result == IF self.cls = "AndOperator"
                      THEN \A i \in 1..n : Truthy(results[i])
                      ELSE \E i \in 1..n : Truthy(results[i])
        IN  IF \E i \in 1..n : IsErr(results[i])
            THEN IsErr(returned.result)
            ELSE /\ returned.result = VBool(IF self.not_operator THEN ~result ELSE result)
                 /\ n = 0 =>
                       returned.result = VBool((self.cls = "AndOperator") # self.not_operator)

\* C5: an And container that is not negated was evaluated on a row on which
\* its first member holds and its second does not, and gave false.
C5_Witness ==
    /\ pc = "evaluated"
    /\ heap[returned.container].cls = "AndOperator"
    /\ ~heap[returned.container].not_operator
    /\ Len(heap[returned.container].compare_objects) = 2
    /\ MemberResult(heap, returned.container, 1, returned.row) = VBool(TRUE)
    /\ MemberResult(heap, returned.container, 2, returned.row) = VBool(FALSE)
    /\ returned.result = VBool(FALSE)

\* C8: from_dict_facade(x.to_dict()) raises nothing and gives an object that
\* behaves as x does: a container evaluates alike on every row, a value
\* source has the same type and the same value on every row, an environment
\* has the same attributes and default mappings, a runner the same number
\* of expressions.
C8_RoundTripBehavesIdentically ==
    pc = "rebuilt" =>
        LET x == returned.of
            made == returned.made
        IN  /\ ~IsErr(made.r)
            /\ made.h[made.r.v].cls = heap[x].cls
            /\ IsBaseContainer(heap[x]) =>
                  \A row \in BuildRows :
                      Call("evaluate", <<made.h, made.r.v, row>>) = Call("evaluate", <<heap, x, row>>)
            /\ IsBaseValue(heap[x]) =>
                  /\ Call("get_type", <<made.h, made.r.v>>) = Call("get_type", <<heap, x>>)
                  /\ \A row \in BuildRows :
                        Call("get_value", <<made.h, made.r.v, row>>) = Call("get_value", <<heap, x, row>>)
            /\ heap[x].cls = "Environment" =>
                  /\ made.h[made.r.v].attributes = heap[x].attributes
                  /\ Call("get_all_default_mappings", <<made.h, made.r.v>>)
                        = Call("get_all_default_mappings", <<heap, x>>)
            /\ heap[x].cls = "RuleRunner" =>
                  Len(made.h[made.r.v].expressions) = Len(heap[x].expressions)

\* C10: every comparer call of every container has as its selected collation
\* one of the collations its comparer declares, and the types its two value
\* sources have now are among the types that collation allows on each side.
C10_CollationAdmitsCurrentTypes ==
    \A id \in Containers(heap) :
        \A i \in 1..Len(heap[id].compare_objects) :
            LET compare_obj == heap[id].compare_objects[i]
                collation_types == get_comparers[compare_obj.key].collation_types
                cmp1_type == Call("get_type", <<heap, compare_obj.comparable1>>)
                cmp2_type == Call("get_type", <<heap, compare_obj.comparable2>>)
            IN  compare_obj.m = "comparer" =>
                    /\ \E j \in 1..Len(collation_types) :
                          collation_types[j] = compare_obj.selected_collation
                    /\ ~IsErr(cmp1_type)
                    /\ ~IsErr(cmp2_type)
                    /\ collation_admits(compare_obj.selected_collation, cmp1_type.v, cmp2_type.v)

IsScalar(x) == x.t \in {"bool", "int", "float", "str"}

\* Whether a path addresses a single scalar of an object: get_dot_notation
\* gives one scalar, unwrapped by a trailing $val or alone in its list.
AddressesSingleScalar(o, p) ==
    LET got == Call("get_dot_notation", <<o, p>>)
    IN  \/ IsScalar(got)
        \/ (got.t = "list" /\ Len(got.v) = 1 /\ IsScalar(got.v[1]))

\* C7: when the path addresses a single scalar of obj and the value is a
\* scalar, set_dot_notation(obj, p, v) returns an object, and
\* get_dot_notation of that object at p is v.
C7_GetAfterSet ==
    (pc \in {"set", "got"} /\ AddressesSingleScalar(obj, dot_specifier) /\ IsScalar(value)) =>
        IF pc = "set" THEN ~IsErr(returned) ELSE PyEq(returned, value)

\* C11: in every state of an Environment reached by add_attribute,
\* add_default_mapping, add_default_mapping_with_index and clear_attributes,
\* every pair that get_all_default_mappings returns is an INPUT attribute
\* followed by an OUTPUT attribute.
C11_DefaultMappingsPairInputWithOutput ==
    (pc = "mappings" /\ ~IsErr(returned)) =>
        \A k \in 1..Len(returned.v) :
            /\ returned.v[k][1].attribute_type = INPUT
            /\ returned.v[k][2].attribute_type = OUTPUT

\* The Attribute objects of a value: the value itself and those among the
\* arguments of its filters.
RECURSIVE ValueAttributes(_, _)
ValueAttributes(h, id) ==
    (IF h[id].cls = "Attribute" THEN {id} ELSE {})
    \cup UNION {UNION {ValueAttributes(h, h[id].filters[i].args[j]) :
                           j \in 1..Len(h[id].filters[i].args)} :
                    i \in 1..Len(h[id].filters)}

\* The Attribute objects of a container: the two sides and the arguments of
\* its comparers, and those of its sub-containers.
RECURSIVE ContainerAttributes(_, _)
ContainerAttributes(h, id) ==
    UNION {LET compare_object == h[id].compare_objects[i]
           IN  IF compare_object.m = "container" THEN ContainerAttributes(h, compare_object.ref)
               ELSE ValueAttributes(h, compare_object.comparable1)
                    \cup ValueAttributes(h, compare_object.comparable2)
                    \cup UNION {ValueAttributes(h, compare_object.args[j]) :
                                    j \in 1..Len(compare_object.args)} :
           i \in 1..Len(h[id].compare_objects)}

\* The Attribute objects of an expression: those of its container and of the
\* values of its actions.
ExpressionAttributes(h, id) ==
    ContainerAttributes(h, h[id].base_container)
    \cup UNION {ValueAttributes(h, h[id].actions[i].value) : i \in 1..Len(h[id].actions)}

\* The entries of an environment for a path, of one attribute type.
Entries(h, env, path, attribute_type) ==
    {i \in 1..Len(h[env].attributes) :
        /\ h[env].attributes[i].dot_specifier = path
        /\ h[env].attributes[i].attribute_type = attribute_type}

\* C12: the validation of an expression against an environment returns true
\* when the path of every Attribute of the expression (a side of a comparer,
\* in a sub-container too, or the value of an action) has an INPUT entry in
\* the environment and the path of every action has an OUTPUT entry that is
\* not read-only, and false otherwise.
C12_ValidationChecksExistence ==
    pc = "validated" =>
        (returned.result <=>
            /\ \A a \in ExpressionAttributes(heap, returned.expression) :
                   Entries(heap, environment, heap[a].base_input, INPUT) # {}
            /\ \A i \in 1..Len(heap[returned.expression].actions) :
                   \E e \in Entries(heap, environment,
                                    VStr(heap[returned.expression].actions[i].key), OUTPUT) :
                       ~heap[environment].attributes[e].read_only)

\* The expression of test_environment with the action on c is validated
\* against an environment with a.$val and c, and against one where c is
\* read-only.
C12_Witness ==
    /\ pc = "validated"
    /\ returned.result
    /\ ExpressionAttributes(heap, returned.expression) # {}
    /\ Len(heap[returned.expression].actions) = 1
    /\ Len(heap[environment].attributes) = 2

C12_WitnessReadOnly ==
    /\ pc = "validated"
    /\ ~returned.result
    /\ Len(heap[returned.expression].actions) = 1
    /\ ExpressionAttributes(heap, returned.expression) = {}
    /\ Entries(heap, environment, VStr(StrC), OUTPUT) # {}
    /\ heap[returned.expression].actions[1].key = StrC

\* A type is acceptable for a declared data type when it is that type or one
\* of the two converts implicitly to the other.
Acceptable(given, declared) ==
    \/ given = declared
    \/ <<given, declared>> \in ALLOWED_IMPLICIT_CONVERSIONS
    \/ <<declared, given>> \in ALLOWED_IMPLICIT_CONVERSIONS

\* Some entry of the environment for the path, of the attribute type, has a
\* data type the type of the value is acceptable for.
AcceptableEntry(h, env, path, attribute_type, id) ==
    \E e \in Entries(h, env, path, attribute_type) :
        Acceptable(Call("get_type", <<h, id>>).v, h[env].attributes[e].attribute_data_type)

\* C13: the validation of an expression returns true only if the type of
\* every Attribute is acceptable for the data type of the INPUT entry of its
\* path and the type of the value of every action is acceptable for the data
\* type of the OUTPUT entry of the path of the action.
C13_ValidationChecksTypes ==
    (pc = "validated" /\ returned.result) =>
        /\ \A a \in ExpressionAttributes(heap, returned.expression) :
               AcceptableEntry(heap, environment, heap[a].base_input, INPUT, a)
        /\ \A i \in 1..Len(heap[returned.expression].actions) :
               AcceptableEntry(heap, environment,
                               VStr(heap[returned.expression].actions[i].key), OUTPUT,
                               heap[returned.expression].actions[i].value)

\* The specifier x[i,j].
CommaSpecifier(i, j) == <<"x", "[">> \o IntToStr(i) \o <<",">> \o IntToStr(j) \o <<"]">>

\* The elements of a sequence of values one after the other, those of the
\* sequences among them in their place.
Concatenated(selections) == VList(flatten_seq(VList(selections)))

\* C14: in get_dot_notation a bracket with the comma-separated subscriptions
\* i, j selects each on the same sequence s and concatenates: x[i,j] yields
\* [s[i], s[j]].
C14_CommaListConcatenates ==
    (pc = "read" /\ obj.t = "dict" /\ StrX \in DOMAIN obj.v /\ obj.v[StrX].t = "list") =>
        \A i \in 0..2, j \in 0..2 :
            (dot_specifier = CommaSpecifier(i, j) /\ i < Len(obj.v[StrX].v) /\ j < Len(obj.v[StrX].v)) =>
                returned = Concatenated(<<obj.v[StrX].v[i + 1], obj.v[StrX].v[j + 1]>>)

ValSuffix == <<".", "$", "v", "a", "l">>
HasValSuffix(p) == Len(p) > Len(ValSuffix) /\ SubSeq(p, Len(p) - Len(ValSuffix) + 1, Len(p)) = ValSuffix
WithoutValSuffix(p) == SubSeq(p, 1, Len(p) - Len(ValSuffix))

\* C15: get_dot_notation without a trailing .$val returns a flat sequence,
\* no element of which is a sequence, in the order of the traversal; with a
\* trailing .$val it returns the one leaf of that sequence when there is
\* exactly one and fails otherwise.
C15_GetIsFlatOrSingleLeaf ==
    pc = "read" =>
        /\ (~HasValSuffix(dot_specifier) /\ ~IsErr(returned)) =>
               /\ returned.t = "list"
               /\ \A k \in 1..Len(returned.v) : returned.v[k].t # "list"
        /\ HasValSuffix(dot_specifier) =>
               LET flat == Call("get_dot_notation", <<obj, WithoutValSuffix(dot_specifier)>>)
               IN  IF IsErr(flat) THEN IsErr(returned)
                   ELSE IF Len(flat.v) = 1 THEN returned = flat.v[1]
                   ELSE IsErr(returned)
        /\ (dot_specifier = StrX /\ obj = VDict(StrX :> VList(<<VList(<<VInt(1), VInt(2)>>),
                                                               VList(<<VInt(3), VInt(4)>>)>>))) =>
               returned = VList(<<VInt(1), VInt(2), VInt(3), VInt(4)>>)
        /\ (dot_specifier = <<"x", ".", "k">>
            /\ obj = VDict(StrX :> VList(<<VDict(StrK :> VInt(1)), VDict(StrK :> VInt(2))>>))) =>
               returned = VList(<<VInt(1), VInt(2)>>)

\* get_dot_notation({"x": [10, 20, 30]}, "x[0].$val") has returned 10.
C15_Witness ==
    /\ pc = "read"
    /\ obj = VDict(StrX :> VList(<<VInt(10), VInt(20), VInt(30)>>))
    /\ dot_specifier = <<"x", "[", "0", "]", ".", "$", "v", "a", "l">>
    /\ returned = VInt(10)

\* get_dot_notation({"x": [[1, 2], [3, 4]]}, "x") has returned [1, 2, 3, 4],
\* and "x.$val" on the same object has failed.
C15_WitnessFlat ==
    /\ pc = "read"
    /\ obj = VDict(StrX :> VList(<<VList(<<VInt(1), VInt(2)>>), VList(<<VInt(3), VInt(4)>>)>>))
    /\ \/ dot_specifier = StrX /\ returned = VList(<<VInt(1), VInt(2), VInt(3), VInt(4)>>)
       \/ dot_specifier = StrX \o ValSuffix /\ IsErr(returned)

\* The slices x[lo:hi] that are set.
SliceSpecifiers ==
    {[specifier |-> <<"x", "[", "1", ":", "3", "]">>, lo |-> 1, hi |-> 3],
     [specifier |-> <<"x", "[", "0", ":", "1", "]">>, lo |-> 0, hi |-> 1]}

\* C16: set_dot_notation with a slice as the final segment assigns slot i of
\* the slice the element i of a value that is a sequence, the target keeping
\* its length, and otherwise puts the value into every slot of the slice; the
\* slots outside the slice are left as they were.
C16_SliceAssignsElementWise ==
    (pc = "set" /\ ~IsErr(returned) /\ obj.t = "dict" /\ StrX \in DOMAIN obj.v /\ obj.v[StrX].t = "list") =>
        \A slice \in SliceSpecifiers :
            dot_specifier = slice.specifier =>
                LET s == obj.v[StrX].v
                    set == returned.v[StrX].v
                IN  /\ Len(set) = Len(s)
                    /\ \A k \in 1..Len(s) :
                           IF k <= slice.lo \/ k > slice.hi THEN set[k] = s[k]
                           ELSE IF value.t # "list" THEN set[k] = value
                           ELSE k - slice.lo <= Len(value.v) => set[k] = value.v[k - slice.lo]

\* The first segment of a specifier names a key of the object that is
\* missing, null or a scalar, and the specifier goes on after it: with a
\* bracket or with a further segment.
Unnavigable(o, p) ==
    LET first == Call("specifier_keys", <<p>>)[1]
        bracket == IndexOf(first, "[")
        sub_key == IF bracket = 0 THEN first ELSE SubSeq(first, 1, bracket - 1)
        node == IF sub_key \in DOMAIN o.v THEN o.v[sub_key] ELSE None
    IN  /\ o.t = "dict"
        /\ sub_key # <<>>
        /\ bracket # 0 \/ Len(Call("specifier_keys", <<p>>)) > 1
        /\ node.t \in {"null", "bool", "int", "float", "str"}

\* C17: set_dot_notation fails with DotNotationError whenever a segment of
\* the path cannot be navigated in the object: the key is missing or null or
\* names a scalar, in a segment with a bracket or without one.
C17_UnnavigablePathRaisesDotNotationError ==
    (pc = "set" /\ Unnavigable(obj, dot_specifier)) => returned = Err("DotNotationError")

\* A list of pairs of types is not empty and over ALLOWED_TYPES.
TypePairsOk(pairs) ==
    /\ Len(pairs) > 0
    /\ \A i \in 1..Len(pairs) : pairs[i][1] \in ALLOWED_TYPES /\ pairs[i][2] \in ALLOWED_TYPES

\* No input type of a list of manipulation types has two outputs.
DistinctInputs(pairs) ==
    \A i \in 1..Len(pairs), j \in 1..Len(pairs) : pairs[i][1] = pairs[j][1] => i = j

\* No pair of a list of collation types is there twice.
DistinctPairs(pairs) ==
    \A i \in 1..Len(pairs), j \in 1..Len(pairs) : pairs[i] = pairs[j] => i = j

\* Every filter and every comparer of the registry keeps the rules of its
\* list of types.
RegistryOk(engine) ==
    /\ \A k \in DOMAIN engine.system_available_filters :
           /\ TypePairsOk(engine.system_available_filters[k].manipulation_types)
           /\ DistinctInputs(engine.system_available_filters[k].manipulation_types)
    /\ \A k \in DOMAIN engine.system_available_comparers :
           /\ TypePairsOk(engine.system_available_comparers[k].collation_types)
           /\ DistinctPairs(engine.system_available_comparers[k].collation_types)

\* The registration that was asked for keeps the rules: its list of types,
\* and the number of parameters of its method.
RegistrationOk(asked) ==
    /\ TypePairsOk(asked.types)
    /\ IF asked.registered = "filter"
       THEN /\ DistinctInputs(asked.types)
            /\ asked.method_def.parameters = 1 + Len(asked.params)
       ELSE /\ DistinctPairs(asked.types)
            /\ asked.method_def.parameters = 2 + Len(asked.params)

C18_WitnessRegistered ==
    /\ pc = "registry"
    /\ \E k \in DOMAIN heap[runner].system_available_filters :
           Len(heap[runner].system_available_filters[k].manipulation_types) = 2
    /\ \E k \in DOMAIN heap[runner].system_available_comparers :
           Len(heap[runner].system_available_comparers[k].collation_types) = 2

\* Whether a serialized value source or container names something the
\* registry does not have: a tag that is not registered, a filter or a
\* comparer that is not registered, a collation the comparer does not list,
\* or a number of arguments other than the number of parameters.
RECURSIVE Stale(_)
Stale(dict_obj) ==
    \/ dict_obj.key \notin json_reprs
    \/ /\ dict_obj.key \in {"Constant", "Attribute"}
       /\ \E i \in 1..Len(dict_obj.obj.filters) :
              LET filt == dict_obj.obj.filters[i]
              IN  \/ filt.filter_key \notin DOMAIN get_filters
                  \/ Len(filt.args) # Len(get_filters[filt.filter_key].params)
                  \/ \E j \in 1..Len(filt.args) : Stale(filt.args[j])
    \/ /\ dict_obj.key \in {"AndOperator", "OrOperator"}
       /\ \/ \E i \in 1..Len(dict_obj.obj.sub_containers) : Stale(dict_obj.obj.sub_containers[i])
          \/ \E i \in 1..Len(dict_obj.obj.comparers) :
                 LET cmp == dict_obj.obj.comparers[i]
                 IN  \/ cmp.comparer_key \notin DOMAIN get_comparers
                     \/ \A n \in 1..Len(get_comparers[cmp.comparer_key].collation_types) :
                            get_comparers[cmp.comparer_key].collation_types[n] # cmp.selected_collation
                     \/ Len(cmp.args) # Len(get_comparers[cmp.comparer_key].params)
                     \/ Stale(cmp.comparable1)
                     \/ Stale(cmp.comparable2)
                     \/ \E j \in 1..Len(cmp.args) : Stale(cmp.args[j])

\* C19: from_dict_facade gives a RuleCreationError, and no object, for a
\* serialized value source or container whose tag is not registered, or that
\* names, at any depth, a filter or a comparer the registry does not have, a
\* collation the comparer does not list, or arguments the signature of the
\* filter or the comparer does not take.
C19_RehydrationRevalidates ==
    (pc = "rehydrated" /\ Stale(returned.dict_obj)) =>
        (IsErr(returned.made.r) /\ returned.made.r.v = "RuleCreationError")

\* A container whose comparer has a left side with a filter was serialized,
\* the filter is not in the registry, and the container was not rebuilt.
C19_Witness ==
    /\ pc = "rehydrated"
    /\ returned.how = "comparable_filter_key"
    /\ Stale(returned.dict_obj)
    /\ IsErr(returned.made.r)

\* C20: run_on_iterable yields the rows in input order, one for each input
\* row when it returns, and each yielded row is what the loop body gives for
\* its input row alone, with the runner and the environment, starting from
\* an empty change set, whatever rows came before it; a row that raises ends
\* the stream after the rows before it.
C20_RowsYieldedIndependently ==
    /\ Len(yielded) <= Len(iter_object)
    /\ (pc = "row" => Len(yielded) = row_index)
    /\ (pc = "done" => Len(yielded) = Len(iter_object))
    /\ (pc = "raised" =>
           /\ Len(yielded) = row_index - 1
           /\ raised = Call("run_on_row", <<heap, runner, environment, iter_object[row_index]>>))
    /\ \A i \in 1..Len(yielded) :
           yielded[i] = Call("run_on_row", <<heap, runner, environment, iter_object[i]>>)

\* Two rows were run: on the first an action assigned to a path, on the
\* second no action ran and a default mapping wrote the row.
C20_Witness ==
    /\ pc = "done"
    /\ Len(iter_object) = 2
    /\ Len(yielded) = 2
    /\ LET first == Call("run_expressions", <<heap, heap[runner].expressions, 1, iter_object[1], {}>>)
           second == Call("run_expressions", <<heap, heap[runner].expressions, 1, iter_object[2], {}>>)
       IN  /\ ~IsErr(first)
           /\ ~IsErr(second)
           /\ first.change_set # {}
           /\ second.change_set = {}
           /\ yielded[2] # iter_object[2]

(***************************************************************************)
(* Properties of the value sources.                                        *)
(***************************************************************************)
\* Whether the last step was the call of that name on the value source.
IsCall(r, name) == "call" \in DOMAIN r /\ r.call = name

\* C21: while a Constant or an Attribute holds a filter, set_input and
\* set_input_type raise RuleCreationError and leave the value source as it
\* was; with no filter (so after clear_filters) set_input_type with a type
\* of ALLOWED_TYPES and set_input are accepted, for a Constant whenever the
\* parser of the type accepts the raw value.
C21_InputIsFixedWhileFiltered ==
    [][(pc = "value" /\ (IsCall(returned', "set_input") \/ IsCall(returned', "set_input_type"))) =>
          LET self == heap[runner]
              arg == returned'.args[1]
              type_name == IF returned'.call = "set_input" THEN self.type ELSE arg
              raw == IF returned'.call = "set_input" THEN arg ELSE self.base_input_raw
              accepted == ~IsErr(returned'.result)
          IN  /\ Len(self.filters) > 0 =>
                    /\ IsErr(returned'.result)
                    /\ returned'.result.v = "RuleCreationError"
                    /\ heap' = heap
              /\ (Len(self.filters) = 0 /\ type_name \in ALLOWED_TYPES) =>
                    /\ accepted <=> (self.cls = "Attribute"
                                     \/ ~IsErr(Call("TYPE_PARSERS", <<type_name, raw>>)))
                    /\ accepted => heap'[runner].type = type_name
                    /\ (accepted /\ returned'.call = "set_input" /\ self.cls = "Attribute") =>
                          heap'[runner].base_input = arg]_vars

\* set_input_type with a type of ALLOWED_TYPES was rejected on a value source
\* that holds a filter.
C21_Witness ==
    /\ pc = "value"
    /\ IsCall(returned, "set_input_type")
    /\ returned.args[1] \in ALLOWED_TYPES
    /\ IsErr(returned.result)
    /\ returned.result.v = "RuleCreationError"
    /\ Len(heap[runner].filters) > 0

\* set_input_type was accepted on a value source whose filters were cleared.
C21_WitnessAccepted ==
    /\ pc = "value"
    /\ IsCall(returned, "set_input_type")
    /\ ~IsErr(returned.result)
    /\ heap[runner].type = returned.args[1]

\* The types a value of which a filter input of type_name takes: the type
\* itself and those with an implicit conversion to it.
AllowedSources(type_name) ==
    {type_name} \cup {ty \in ALLOWED_TYPES : <<ty, type_name>> \in ALLOWED_IMPLICIT_CONVERSIONS}

\* The places of the pairs of a manipulation list that take cur_type.
TakingPairs(manipulation_types, cur_type) ==
    {n \in 1..Len(manipulation_types) : cur_type \in AllowedSources(manipulation_types[n][1])}

\* The type threaded through the filters from the i-th on by the first pair
\* of each that takes the current type; "NoPair" when a filter has none.
RECURSIVE Threaded(_, _, _)
Threaded(filters, i, cur_type) ==
    IF i > Len(filters) THEN cur_type
    ELSE LET mt == filters[i].filter.manipulation_types
             taking == TakingPairs(mt, cur_type)
         IN  IF taking = {} THEN "NoPair"
             ELSE Threaded(filters, i + 1,
                           mt[CHOOSE n \in taking : \A m \in taking : n <= m][2])

\* C22: for a value source whose filters add_filter accepted, get_type() is
\* the declared type threaded through the first pair of each filter that
\* takes the current type, and the loop of get_value, which prefers a pair
\* whose input is the current type itself, threads the same type, whatever
\* the registered manipulation lists.
C22_GetTypeAndGetValueThreadAlike ==
    (pc = "threaded" /\ ~IsErr(returned.self)) =>
        /\ returned.get_type = TypeOk(Threaded(returned.self.filters, 1, returned.value_type))
        /\ returned.get_value_type = returned.get_type

\* Two filters were added to a Numeric value source, the first with a pair
\* of input Numeric and a pair of input String, which both take Numeric.
C22_Witness ==
    /\ pc = "threaded"
    /\ ~IsErr(returned.self)
    /\ returned.value_type = "Numeric"
    /\ Len(returned.self.filters) = 2
    /\ Cardinality(TakingPairs(returned.self.filters[1].filter.manipulation_types, "Numeric")) = 2
    /\ returned.get_type.v \in ALLOWED_TYPES

\* Whether a registered manipulation list is the declared one with the pairs
\* of an input that starts with String after all the others, the others in
\* their declared order.
StringInputsLast(stored, declared) ==
    /\ Len(stored) = Len(declared)
    /\ {stored[n] : n \in 1..Len(stored)} = {declared[n] : n \in 1..Len(declared)}
    /\ \A i \in 1..Len(stored), j \in 1..Len(stored) :
           (StartsWithString(stored[i][1]) /\ ~StartsWithString(stored[j][1])) => j < i
    /\ \A i \in 1..Len(declared), j \in 1..Len(declared) :
           (i < j /\ ~StartsWithString(declared[i][1]) /\ ~StartsWithString(declared[j][1])) =>
               \E m \in 1..Len(stored), n \in 1..Len(stored) :
                   m < n /\ stored[m] = declared[i] /\ stored[n] = declared[j]

\* C24: a filter is registered with its pairs of a String or StringList
\* input after all the others, the others in their declared order, so a
\* filter with a pair of input Numeric and a pair of input String, added to a
\* Numeric value source, is typed and applied by its Numeric pair, whatever
\* the declared order.
C24_StringInputPairsComeLast ==
    /\ [][("registered" \in DOMAIN returned' /\ returned'.registered = "filter"
               /\ ~IsErr(returned'.result)) =>
              LET before == heap[runner].system_available_filters
                  after == heap'[runner].system_available_filters
                  written == {k \in DOMAIN after : k \notin DOMAIN before \/ after[k] # before[k]}
              IN  /\ \A k \in written : StringInputsLast(after[k].manipulation_types, returned'.types)
                  /\ \E k \in DOMAIN after :
                         StringInputsLast(after[k].manipulation_types, returned'.types)]_vars
    /\ [](("threaded" \in DOMAIN returned /\ ~IsErr(returned.self)
              /\ returned.value_type = "Numeric") =>
             LET mt == returned.self.filters[1].filter.manipulation_types
             IN  \A n \in 1..Len(mt) :
                     mt[n][1] = "Numeric" =>
                         /\ Call("get_type_from", <<SubSeq(returned.self.filters, 1, 1), 1, "Numeric">>)
                                = TypeOk(mt[n][2])
                         /\ Call("get_value_type_from", <<SubSeq(returned.self.filters, 1, 1), 1, "Numeric">>)
                                = TypeOk(mt[n][2]))

\* A filter declared with the String pair before the Numeric pair was added
\* to a Numeric value source, and its type is the output of the Numeric
\* pair.
C24_Witness ==
    /\ pc = "threaded"
    /\ ~IsErr(returned.self)
    /\ returned.value_type = "Numeric"
    /\ Len(returned.threaded) = 1
    /\ returned.self.filters[1].filter.manipulation_types
          = <<<<"Numeric", "String">>, <<"String", "Numeric">>>>
    /\ returned.get_type = TypeOk("String")

\* The places of the declared collations that admit the types of the two
\* comparables.
AdmittingCollations(collation_types, cmp1_type, cmp2_type) ==
    {n \in 1..Len(collation_types) :
        /\ cmp1_type \in AllowedSources(collation_types[n][1])
        /\ cmp2_type \in AllowedSources(collation_types[n][2])}

\* C23: with no collation given, add_comparer selects the declared collation
\* that equals the types of the comparables if there is one, otherwise the
\* first declared collation that admits them, and raises RuleCreationError
\* if there is none; with a collation given it succeeds, with that
\* collation, just when it is declared and admits the types, and raises
\* RuleCreationError otherwise.
C23_CollationIsExactThenFirstAdmitting ==
    pc = "collated" =>
        LET ct == heap[runner].system_available_comparers[returned.collated].collation_types
            types == <<returned.cmp1_type, returned.cmp2_type>>
            admitting == AdmittingCollations(ct, types[1], types[2])
            declared == {ct[n] : n \in 1..Len(ct)}
            failed == IsErr(returned.result) /\ returned.result.v = "RuleCreationError"
        IN  IF returned.collation_type = NoCollation
            THEN IF types \in declared THEN returned.result = [t |-> "collation", v |-> types]
                 ELSE IF admitting # {}
                 THEN returned.result
                          = [t |-> "collation",
                             v |-> ct[CHOOSE n \in admitting : \A m \in admitting : n <= m]]
                 ELSE failed
            ELSE IF /\ returned.collation_type \in declared
                    /\ types[1] \in AllowedSources(returned.collation_type[1])
                    /\ types[2] \in AllowedSources(returned.collation_type[2])
                 THEN returned.result = [t |-> "collation", v |-> returned.collation_type]
                 ELSE failed

\* With no collation given, the collation (Numeric, Numeric) was selected
\* for two Numeric comparables although (String, String), declared before
\* it, admits them.
C23_Witness ==
    /\ pc = "collated"
    /\ returned.collation_type = NoCollation
    /\ returned.cmp1_type = "Numeric"
    /\ returned.cmp2_type = "Numeric"
    /\ heap[runner].system_available_comparers[returned.collated].collation_types[1]
          = <<"String", "String">>
    /\ returned.result = [t |-> "collation", v |-> <<"Numeric", "Numeric">>]

\* With no collation given and none equal to the types, the first of two
\* declared collations that admit them was selected.
C23_WitnessFirstAdmitting ==
    /\ pc = "collated"
    /\ returned.collation_type = NoCollation
    /\ returned.cmp1_type = "Boolean"
    /\ returned.cmp2_type = "Numeric"
    /\ Len(heap[runner].system_available_comparers[returned.collated].collation_types) = 3
    /\ returned.result = [t |-> "collation", v |-> <<"String", "String">>]

\* Whether a filter of the registry has a manipulation pair whose input
\* admits the type of the value source.
Addable(h, id, filter_name) ==
    /\ filter_name \in DOMAIN get_filters
    /\ \E n \in 1..Len(get_filters[filter_name].manipulation_types) :
           Call("get_type", <<h, id>>).v
               \in AllowedSources(get_filters[filter_name].manipulation_types[n][1])

\* The arguments of add_filter that the parameter of their place does not
\* take, by their value class or by their type.
RejectedArguments(h, filter_name, args) ==
    IF filter_name \notin DOMAIN get_filters THEN {}
    ELSE LET params == get_filters[filter_name].params
         IN  {i \in 1..Len(args) :
                 /\ i <= Len(params)
                 /\ \/ h[args[i]].cls \notin params[i].value_classes
                    \/ Call("get_type", <<h, args[i]>>).v \notin AllowedSources(params[i].type)}

\* The violations of a call of add_filter: a key that is unknown or not
\* addable, a wrong number of arguments, and every argument that is not
\* taken.
Violations(h, id, filter_name, args) ==
    (IF Addable(h, id, filter_name) THEN 0 ELSE 1)
    + (IF filter_name \in DOMAIN get_filters
          /\ Len(get_filters[filter_name].params) # Len(args) THEN 1 ELSE 0)
    + Cardinality(RejectedArguments(h, filter_name, args))

\* C25: the RuleCreationError of a rejected add_filter has one detail string
\* for every violation of the call: the key that is unknown or not addable,
\* the wrong number of arguments, and each argument whose value class or
\* type the parameter does not take.
C25_RejectionReportsEveryViolation ==
    (/\ pc = "value"
     /\ IsCall(returned, "add_filter")
     /\ IsErr(returned.result)
     /\ returned.result.v = "RuleCreationError")
        => Len(returned.result.detail)
               = Violations(heap, runner, returned.args[1], returned.args[2])

\* numeric_to_string, of no parameters and not addable to a String source,
\* was rejected with one argument and with one detail string.
C25_Diverges ==
    /\ pc = "value"
    /\ IsCall(returned, "add_filter")
    /\ returned.args = <<"numeric_to_string", <<1>>>>
    /\ Call("get_type", <<heap, runner>>).v = "String"
    /\ IsErr(returned.result)
    /\ Len(returned.result.detail) = 1

\* The places, in the order of TYPE_PARSERS, of the parsers that accept a
\* value.
AcceptingParsers(raw) ==
    {i \in 1..Len(TYPE_PARSER_KEYS) : ~IsErr(TYPE_PARSERS(TYPE_PARSER_KEYS[i], raw))}

\* C26: a Constant made with no type has the first type, in the order of
\* TYPE_PARSERS, whose parser accepts the value, and that parser's result as
\* its input; making it never fails.
C26_DetectionTakesFirstAcceptingParser ==
    (IsCall(returned, "Constant") /\ returned.args[2] = NoType) =>
        /\ ~IsErr(returned.result)
        /\ LET accepting == AcceptingParsers(returned.args[1])
               first == CHOOSE i \in accepting : \A j \in accepting : i <= j
               made == heap[returned.result.v]
           IN  /\ accepting # {}
               /\ made.type = TYPE_PARSER_KEYS[first]
               /\ made.base_input = TYPE_PARSERS(TYPE_PARSER_KEYS[first], returned.args[1])

\* Constant(["a", n]), n an integer beyond the range of float, raised
\* OverflowError.
C26_Diverges ==
    /\ pc = "raised"
    /\ IsCall(returned, "Constant")
    /\ returned.args = <<VList(<<VStr(<<"a">>), VBigInt>>), NoType>>
    /\ returned.result = Err("OverflowError")

\* Constant(5), Constant("Gold") and Constant("5") are Numeric, String and
\* Numeric.
C26_Examples ==
    (IsCall(returned, "Constant") /\ returned.args[2] = NoType /\ ~IsErr(returned.result)) =>
        LET made == heap[returned.result.v]
        IN  /\ returned.args[1] = VInt(5) => made.type = "Numeric"
            /\ returned.args[1] = VStr(<<"G", "o", "l", "d">>) => made.type = "String"
            /\ returned.args[1] = VStr(<<"5">>) => made.type = "Numeric"

\* The specifiers of segments without a bracket and without $val.
PlainSpecifiers == {StrA, StrC, StrCD, StrX, <<"x", ".", "k">>}

\* The descent by segments without a bracket: by key in a mapping, null for
\* a key that is not there; in a sequence the segment applied to every
\* element, the results in the order of the elements; DotNotationError on
\* a scalar.
RECURSIVE DescentByKey(_, _)
DescentByKey(node, keys) ==
    IF IsErr(node) \/ keys = <<>> THEN node
    ELSE CASE node.t = "dict" ->
                  DescentByKey(IF keys[1] \in DOMAIN node.v THEN node.v[keys[1]] ELSE None,
                               Tail(keys))
           [] node.t = "list" ->
                  Collect([i \in 1..Len(node.v) |-> DescentByKey(node.v[i], keys)])
           [] OTHER -> Err("DotNotationError")

\* C27: get_dot_notation of a specifier of segments without a bracket
\* descends by key in a mapping, with null for a missing key, applies the
\* segment to every element of a sequence and collects the results in the
\* order of the elements, and raises DotNotationError on a scalar; the
\* result is flattened.
C27_SegmentDescendsOrLifts ==
    (pc = "read" /\ dot_specifier \in PlainSpecifiers) =>
        returned = Call("flatten", <<DescentByKey(obj, Call("specifier_keys", <<dot_specifier>>))>>)

\* x.k on {x: [{k: 1}, {k: 2}]} was [1, 2].
C27_ListLifted ==
    /\ pc = "read"
    /\ dot_specifier = <<"x", ".", "k">>
    /\ obj = VDict(StrX :> VList(<<VDict(StrK :> VInt(1)), VDict(StrK :> VInt(2))>>))
    /\ returned = VList(<<VInt(1), VInt(2)>>)

\* x.k on {x: [10, 20, 30]} raised AttributeError.
C27_Diverges ==
    /\ pc = "read"
    /\ dot_specifier = <<"x", ".", "k">>
    /\ obj = VDict(StrX :> VList(<<VInt(10), VInt(20), VInt(30)>>))
    /\ returned = Err("AttributeError")

\* The row after the actions of an expression from the i-th on, each value
\* read from the row the actions before it left.
RECURSIVE Applied(_, _, _, _)
Applied(h, actions, i, row) ==
    IF i > Len(actions) THEN row
    ELSE Applied(h, actions, i + 1,
                 Call("set_dot_notation",
                      <<row, actions[i].key, Call("get_value", <<h, actions[i].value, row>>)>>))

\* C28: an expression that runs on a row takes its condition on the row as
\* the expressions before it left it, and when it fires every action takes
\* its value on the row as the actions before it left it; the row it leaves
\* is the row the next expression runs on.
C28_LaterStepsSeeWrittenRow ==
    [][(pc = "expression" /\ expression_index' = expression_index + 1) =>
          LET expression == heap[heap[runner].expressions[expression_index]]
              fires == Call("evaluate", <<heap, expression.base_container, current_row>>)
          IN  current_row' = IF Truthy(fires) THEN Applied(heap, expression.actions, 1, current_row)
                             ELSE current_row]_vars

\* On the row {a: "x"} the first expression wrote 5 to a, and the second,
\* which fires when a is 5 or 30, has written 35 to c.
C28_Witness ==
    /\ program = <<"seta", "or2">>
    /\ pc = "expression"
    /\ expression_index = 3
    /\ yielded = <<>>
    /\ row_index = 1
    /\ StrC \in DOMAIN current_row.v
    /\ current_row.v[StrC] = VFloat(35)
    /\ current_row.v[StrA] = VFloat(5)

\* The second action of an expression wrote to b the text of the value its
\* first action wrote to a.
C28_WitnessAction ==
    /\ program = <<"copy">>
    /\ pc = "expression"
    /\ expression_index = 2
    /\ current_row.v[StrA] = VFloat(30)
    /\ current_row.v[StrB] = VStr(<<"3", "0", ".", "0">>)

\* Whether every filter of a chain, from the i-th on, has a manipulation
\* pair that takes the type threaded up to it.
RECURSIVE ChainThreads(_, _, _)
ChainThreads(filters, i, cur_type) ==
    IF i > Len(filters) THEN cur_type \in ALLOWED_TYPES
    ELSE LET mt == get_filters[filters[i].key].manipulation_types
             taking == TakingPairs(mt, cur_type)
         IN  /\ taking # {}
             /\ ChainThreads(filters, i + 1, mt[CHOOSE n \in taking : \A m \in taking : n <= m][2])

\* C29: a value source that was made and then changed only by add_filter,
\* clear_filters, set_input and set_input_type has, in every state, a chain
\* of filters each with a manipulation pair that takes the type threaded up
\* to it: get_type() returns a type of ALLOWED_TYPES and raises nothing, and
\* get_value raises no RunnerError on any row.
C29_ChainAlwaysThreads ==
    pc = "value" =>
        /\ ChainThreads(heap[runner].filters, 1, heap[runner].type)
        /\ ~IsErr(Call("get_type", <<heap, runner>>))
        /\ Call("get_type", <<heap, runner>>).v \in ALLOWED_TYPES
        /\ \A row \in ValueRows : Call("get_value", <<heap, runner, row>>) # Err("RunnerError")
        /\ (IsCall(returned, "get_type") \/ IsCall(returned, "get_value")) =>
               (IsErr(returned.result) =>
                   returned.result.v \notin {"RunnerError", "BusinessRuleEngineApiError"})

\* A value source with two filters, after get_value ran on a row and
\* returned a value.
C29_Witness ==
    /\ pc = "value"
    /\ Len(heap[runner].filters) = 2
    /\ IsCall(returned, "get_value")
    /\ ~IsErr(returned.result)

\* A filter was added again after the chain was cleared and the type of
\* the input was set.
C29_WitnessRetyped ==
    /\ pc = "value"
    /\ heap[runner].cls = "Attribute"
    /\ heap[runner].type = "Numeric"
    /\ Len(heap[runner].filters) = 1

\* The builder calls that raise RuleCreationError.
BuilderCalls == {"add_comparer", "add_filter", "add_action", "add_expression", "add_sub_container"}

\* C30: a builder call that is rejected leaves what it builds as it was:
\* the members and not_operator of the container after add_comparer and
\* add_sub_container, the filters of the value source after add_filter, the
\* actions of the expression after add_action and the expressions of the
\* runner after add_expression.
C30_RejectedCallChangesNothing ==
    [][("call" \in DOMAIN returned' /\ returned'.call \in BuilderCalls /\ IsErr(returned'.result)) =>
          /\ heap' = heap
          /\ LET built == heap[returned'.args[1]]
                 left == heap'[returned'.args[1]]
             IN  CASE returned'.call \in {"add_comparer", "add_sub_container"} ->
                          /\ left.compare_objects = built.compare_objects
                          /\ left.not_operator = built.not_operator
                   [] returned'.call = "add_filter" -> left.filters = built.filters
                   [] returned'.call = "add_action" -> left.actions = built.actions
                   [] returned'.call = "add_expression" -> left.expressions = built.expressions]_vars

\* add_comparer was rejected on a negated container that has a member.
C30_Witness ==
    /\ IsCall(returned, "add_comparer")
    /\ IsErr(returned.result)
    /\ heap[returned.args[1]].not_operator
    /\ Len(heap[returned.args[1]].compare_objects) = 1

\* add_action was rejected on an expression that has an action.
C30_WitnessAction ==
    /\ IsCall(returned, "add_action")
    /\ IsErr(returned.result)
    /\ Len(heap[returned.args[1]].actions) = 1

\* add_filter, add_expression and add_sub_container were rejected on a
\* value source with a filter, a runner with an expression and a container
\* with a member.
C30_WitnessFilter ==
    /\ IsCall(returned, "add_filter")
    /\ IsErr(returned.result)
    /\ Len(heap[returned.args[1]].filters) = 1

C30_WitnessExpression ==
    /\ IsCall(returned, "add_expression")
    /\ IsErr(returned.result)
    /\ Len(heap[runner].expressions) = 1

C30_WitnessSubContainer ==
    /\ IsCall(returned, "add_sub_container")
    /\ IsErr(returned.result)
    /\ Len(heap[returned.args[1]].compare_objects) = 1

====
